---- MODULE Spec2Model ----
(***************************************************************************)
(* Lit: the folder/note tree model of App (src/unnamed/part_002).          *)
(*                                                                         *)
(* The React component state (notes, folders, currentNote, noteTitle,      *)
(* noteContent, currentFolderId) and the persisted storage (one JSON file  *)
(* per note, one folders.json index) are the variables.  Every handler of  *)
(* App is one action; the outcome of each storage call it awaits is an     *)
(* input of the action.  Strings are sequences of one-character strings,   *)
(* so that trim() and the name generation are computed, not assumed.       *)
(***************************************************************************)
EXTENDS Integers, Sequences, FiniteSets

(***************************************************************************)
(* Bounds of the model.                                                    *)
(***************************************************************************)
MaxClock == 3        \* Date.now() values handed out: 1..MaxClock
MaxFolders == 3      \* folders in the in-memory collection
MaxNotes == 2        \* note files in storage
MaxDescFolders == 3  \* length of the allFolders argument of getDescendantFolderIds

(***************************************************************************)
(* Values.                                                                 *)
(***************************************************************************)
\* null of `string | null` (src/src/types.ts): no string of the program equals it
NULL == <<"null">>

\* JavaScript truthiness of a `string | null`
Truthy(s) == s # NULL /\ s # <<>>

\* the characters String.prototype.trim() removes that the inputs use
IsSpace(c) == c \in {" ", "\t", "\n"}

RECURSIVE TrimStart(_)
TrimStart(s) ==
    IF s = <<>> THEN <<>>
    ELSE IF IsSpace(Head(s)) THEN TrimStart(Tail(s))
    ELSE s

RECURSIVE TrimEnd(_)
TrimEnd(s) ==
    IF s = <<>> THEN <<>>
    ELSE IF IsSpace(s[Len(s)]) THEN TrimEnd(SubSeq(s, 1, Len(s) - 1))
    ELSE s

\* variant of Trim: the input is used as typed
TrimNothing(s) == s

\* String.prototype.trim()
Trim(s) == TrimEnd(TrimStart(s))

Digit(d) == <<"0", "1", "2", "3", "4", "5", "6", "7", "8", "9">>[d + 1]

\* Number.prototype.toString(), and `${counter}`
RECURSIVE ToStr(_)
ToStr(n) ==
    IF n < 10 THEN <<Digit(n)>>
    ELSE ToStr(n \div 10) \o <<Digit(n % 10)>>

\* const baseName = "New Folder"
BaseName == <<"N", "e", "w", " ", "F", "o", "l", "d", "e", "r">>

\* title: noteTitle || "Untitled Note"
UntitledNote == <<"U", "n", "t", "i", "t", "l", "e", "d", " ", "N", "o", "t", "e">>

\* currentNote === null, as a record so that it compares with notes
NoNote == [id |-> NULL, title |-> <<>>, content |-> <<>>, createdAt |-> 0, folderId |-> NULL]

(***************************************************************************)
(* Pure functions of App.                                                  *)
(***************************************************************************)
\* the elements of a sequence
Range(seq) == {seq[i] : i \in 1..Len(seq)}

\* array.findIndex(x => x.id === id), 0 for -1
FindIndex(seq, id) ==
    IF \E i \in 1..Len(seq) : seq[i].id = id
    THEN CHOOSE i \in 1..Len(seq) :
            seq[i].id = id /\ \A j \in 1..(i - 1) : seq[j].id # id
    ELSE 0

\* variant of SiblingNames: the names of all folders, whatever their parent
SiblingNamesGlobal(fs, parentId) == {Trim(fs[i].name) : i \in 1..Len(fs)}

\* the Set of trimmed names of the folders under parentId
SiblingNames(fs, parentId) ==
    {Trim(fs[i].name) : i \in {j \in 1..Len(fs) : fs[j].parentId = parentId}}

\* `${baseName} ${counter}`
NumberedName(counter) == BaseName \o <<" ">> \o ToStr(counter)

\* while (siblingNames.has(`${baseName} ${counter}`)) counter += 1
RECURSIVE NextCounter(_, _)
NextCounter(siblingNames, counter) ==
    IF NumberedName(counter) \in siblingNames
    THEN NextCounter(siblingNames, counter + 1)
    ELSE counter

GenerateFolderName(fs, parentId) ==
    LET siblingNames == SiblingNames(fs, parentId)
    IN  IF BaseName \notin siblingNames
        THEN BaseName
        ELSE NumberedName(NextCounter(siblingNames, 2))

\* for (const folder of allFolders) if (folder.parentId === current &&
\* !descendants.has(folder.id)) { descendants.add(folder.id); stack.push(folder.id) }
\* variant of ShouldVisit: every folder that has a parent counts as a child
ShouldVisitNested(folder, cur, seen) == folder.parentId # NULL /\ folder.id \notin seen

\* variant of ShouldVisit: no visited-set guard
ShouldVisitUnguarded(folder, cur, seen) == folder.parentId = cur

\* folder.parentId === current && !descendants.has(folder.id)
ShouldVisit(folder, cur, seen) == folder.parentId = cur /\ folder.id \notin seen

RECURSIVE ScanFolders(_, _, _, _)
ScanFolders(cur, fs, i, acc) ==
    IF i > Len(fs) THEN acc
    ELSE IF ShouldVisit(fs[i], cur, acc.descendants)
         THEN ScanFolders(cur, fs, i + 1,
                  [stack |-> Append(acc.stack, fs[i].id),
                   descendants |-> acc.descendants \cup {fs[i].id}])
         ELSE ScanFolders(cur, fs, i + 1, acc)

\* while (stack.length > 0) { const current = stack.pop()!; ... }
RECURSIVE DescendantLoop(_, _)
DescendantLoop(acc, fs) ==
    IF acc.stack = <<>> THEN acc.descendants
    ELSE DescendantLoop(
             ScanFolders(acc.stack[Len(acc.stack)], fs, 1,
                 [stack |-> SubSeq(acc.stack, 1, Len(acc.stack) - 1),
                  descendants |-> acc.descendants]),
             fs)

\* variant of GetDescendantFolderIds: the folder and its direct children only
GetDescendantFolderIdsShallow(folderId, fs) ==
    {folderId} \cup {fs[i].id : i \in {j \in 1..Len(fs) : fs[j].parentId = folderId}}

GetDescendantFolderIds(folderId, fs) ==
    DescendantLoop([stack |-> <<folderId>>, descendants |-> {folderId}], fs)

\* notes.filter(note => note.folderId && foldersToDelete.has(note.folderId))
NotesToDelete(ns, foldersToDelete) ==
    SelectSeq(ns, LAMBDA note : Truthy(note.folderId) /\ note.folderId \in foldersToDelete)

\* notes.filter(note => !notesToDelete.some(deleted => deleted.id === note.id))
RemainingNotes(ns, notesToDelete) ==
    SelectSeq(ns, LAMBDA note : \A k \in 1..Len(notesToDelete) : notesToDelete[k].id # note.id)

\* folders.filter(folder => !foldersToDelete.has(folder.id))
RemainingFolders(fs, foldersToDelete) ==
    SelectSeq(fs, LAMBDA folder : folder.id \notin foldersToDelete)

\* loadedNotes.sort((a, b) => b.createdAt - a.createdAt) over the entries read
RECURSIVE SortNewestFirst(_)
SortNewestFirst(set) ==
    IF set = {} THEN <<>>
    ELSE LET newest == CHOOSE n \in set : \A m \in set : m.createdAt <= n.createdAt
         IN  <<newest>> \o SortNewestFirst(set \ {newest})

(***************************************************************************)
(* Inputs the handlers are driven with.                                    *)
(***************************************************************************)
\* what the user types into the title input and the content textarea
TitleInputs == {<<"a">>}
ContentInputs == {<<"c">>}

\* what renameNote and renameFolder are called with: empty, whitespace only, padded
RenameInputs == {<<>>, <<" ">>, <<" ", "a", " ">>}


(***************************************************************************)
(* State.                                                                  *)
(***************************************************************************)
VARIABLES
    notes,            \* useState<Note[]>: sequence of Note records
    folders,          \* useState<Folder[]>: sequence of Folder records
    currentNote,      \* useState<Note | null>: a Note record or NoNote
    noteContent,      \* useState("")
    noteTitle,        \* useState("")
    currentFolderId,  \* useState<string | null>
    noteFiles,        \* storage: the notes/<id>.json files, as the set of their Note records
    foldersFile,      \* storage: the array in notes/folders.json
    now,              \* the last value of Date.now() that entered the state
    last,             \* history: the handler that ran last and how it ended
    \* one call of getDescendantFolderIds, statement by statement
    allFolders,       \* its argument allFolders
    stack,            \* const stack
    descendants,      \* const descendants
    current,          \* const current
    scanIndex,        \* position of the for-of loop in allFolders
    pc,               \* "idle", "loop" (at the while test), "scan" (in the for-of), "done"
    pushLog,          \* history: every id added to descendants and pushed, in order
    \* NoteView: the textarea and the toolbar
    viewMode,         \* prop viewMode: "edit" or "view"
    selection,        \* textarea.selectionStart / selectionEnd, as [start, end]
    frames,           \* callbacks handed to requestAnimationFrame and not yet run
    applied,          \* history: the toolbar calls made, each with its input and result
    \* storage calls that were issued and have not settled yet
    inflight,         \* the pending writeTextFile / remove calls with their continuations
    launched          \* history: the number of handler calls started

treeVars == <<notes, folders, currentNote, noteContent, noteTitle, currentFolderId,
              noteFiles, foldersFile, now, last>>

descVars == <<allFolders, stack, descendants, current, scanIndex, pc, pushLog>>

editVars == <<viewMode, selection, frames, applied>>

flightVars == <<inflight, launched>>

\* what the handlers of App, run one at a time, leave alone
offTree == <<descVars, editVars, flightVars>>

\* what a call of getDescendantFolderIds leaves alone
offDesc == <<treeVars, editVars, flightVars>>

vars == <<treeVars, descVars, editVars, flightVars>>

Ids(seq) == {seq[i].id : i \in 1..Len(seq)}

FileIds == {f.id : f \in noteFiles}

\* whether a rename input is empty or whitespace only, judged on the raw input
BlankInput(s) == \A i \in 1..Len(s) : s[i] \in {" ", "\t", "\n"}

\* what `last` records of a handler run: the handler; its argument; how it ended
\* ("ok", "blank": returned on the empty trimmed value, "missing": id not found,
\* "writeFailed", "removeFailed"); the kind of rename input ("blank", "text",
\* "none"); the number of folders and notes the handler took out of memory;
\* whether it cleared the open-note state
Ran(op, arg, outcome, input, removed, cleared) ==
    [op |-> op, arg |-> arg, outcome |-> outcome, input |-> input, removed |-> removed,
     cleared |-> cleared]

\* the component as mounted on a fresh installation: empty collections,
\* folders.json initialised to [] by initNotesDirectory
TreeInit ==
    /\ notes = <<>>
    /\ folders = <<>>
    /\ currentNote = NoNote
    /\ noteContent = <<>>
    /\ noteTitle = <<>>
    /\ currentFolderId = NULL
    /\ noteFiles = {}
    /\ foldersFile = <<>>
    /\ now = 0
    /\ last = Ran("mount", NULL, "ok", "none", 0, FALSE)

\* no call of getDescendantFolderIds is being stepped through
DescIdle ==
    /\ allFolders = <<>>
    /\ stack = <<>>
    /\ descendants = {}
    /\ current = NULL
    /\ scanIndex = 0
    /\ pc = "idle"
    /\ pushLog = <<>>

\* no note is being edited through the toolbar
EditIdle ==
    /\ viewMode = "edit"
    /\ selection = [start |-> 0, end |-> 0]
    /\ frames = <<>>
    /\ applied = <<>>

\* every storage call is awaited to its end before the next handler starts
FlightIdle ==
    /\ inflight = {}
    /\ launched = 0

Init == TreeInit /\ DescIdle /\ EditIdle /\ FlightIdle

(***************************************************************************)
(* Storage.                                                                *)
(***************************************************************************)
\* writeTextFile(`notes/${note.id}.json`, JSON.stringify(note)) that succeeded
WriteNoteFile(files, note) == {f \in files : f.id # note.id} \cup {note}

\* remove(`notes/${id}.json`) that succeeded, for each id
RemoveNoteFiles(files, ids) == {f \in files : f.id \notin ids}

\* variant of SaveFolders: setFolders runs before the write is known to succeed
SaveFoldersOptimistic(foldersToSave, writeOk) ==
    /\ folders' = foldersToSave
    /\ foldersFile' = IF writeOk THEN foldersToSave ELSE foldersFile

\* saveFolders: the index is written first, setFolders runs only after the write
SaveFolders(foldersToSave, writeOk) ==
    IF writeOk
    THEN /\ foldersFile' = foldersToSave
         /\ folders' = foldersToSave
    ELSE UNCHANGED <<foldersFile, folders>>

\* variant of LoadNotes: the first entry that cannot be read ends the load
LoadNotesAbortOnError(files, listOk, unreadable) ==
    IF listOk /\ unreadable = {}
    THEN SortNewestFirst(files)
    ELSE notes

\* loadNotes: the entries that could be read and parsed, newest first; the
\* collection is left alone when the directory cannot be listed
LoadNotes(files, listOk, unreadable) ==
    IF listOk
    THEN SortNewestFirst({f \in files : f.id \notin unreadable})
    ELSE notes

\* variant of LoadFolders: a failed read leaves the collection as it was
LoadFoldersKeepOnError(indexFile, readOk) ==
    IF readOk THEN indexFile ELSE folders

\* loadFolders: the parsed index, or setFolders([]) in the catch
LoadFolders(indexFile, readOk) ==
    IF readOk THEN indexFile ELSE <<>>

(***************************************************************************)
(* Handlers.  Each is atomic: the user starts the next one after the       *)
(* previous one has completed.                                             *)
(***************************************************************************)
\* setCurrentNote(null); setNoteTitle(""); setNoteContent("")
ClearOpenNote ==
    /\ currentNote' = NoNote
    /\ noteTitle' = <<>>
    /\ noteContent' = <<>>

\* the Note record createNewNote builds
NewNote(time) ==
    [id |-> ToStr(time), title |-> <<>>, content |-> <<>>,
     createdAt |-> time, folderId |-> currentFolderId]

\* variant of CreateNewNote: the new note is also put in front of the notes
CreateNewNoteListed ==
    /\ now < MaxClock
    /\ Cardinality(noteFiles) < MaxNotes
    /\ now' = now + 1
    /\ currentNote' = NewNote(now + 1)
    /\ noteTitle' = <<>>
    /\ noteContent' = <<>>
    /\ notes' = <<NewNote(now + 1)>> \o notes
    /\ last' = Ran("createNewNote", ToStr(now + 1), "ok", "none", 0, FALSE)
    /\ UNCHANGED offTree
    /\ UNCHANGED <<folders, currentFolderId, noteFiles, foldersFile>>

CreateNewNote ==
    /\ now < MaxClock
    /\ Cardinality(noteFiles) < MaxNotes
    /\ now' = now + 1
    /\ currentNote' = NewNote(now + 1)
    /\ noteTitle' = <<>>
    /\ noteContent' = <<>>
    /\ last' = Ran("createNewNote", ToStr(now + 1), "ok", "none", 0, FALSE)
    /\ UNCHANGED offTree
    /\ UNCHANGED <<notes, folders, currentFolderId, noteFiles, foldersFile>>

\* onTitleChange={setNoteTitle}: the title input exists while a note is open,
\* and its change event fires when the value changes
EditTitle(title) ==
    /\ currentNote # NoNote
    /\ noteTitle # title
    /\ noteTitle' = title
    /\ last' = Ran("edit", NULL, "ok", "none", 0, FALSE)
    /\ UNCHANGED offTree
    /\ UNCHANGED <<notes, folders, currentNote, noteContent, currentFolderId,
                   noteFiles, foldersFile, now>>

\* onContentChange={setNoteContent}
EditContent(content) ==
    /\ currentNote # NoNote
    /\ noteContent # content
    /\ noteContent' = content
    /\ last' = Ran("edit", NULL, "ok", "none", 0, FALSE)
    /\ UNCHANGED offTree
    /\ UNCHANGED <<notes, folders, currentNote, noteTitle, currentFolderId,
                   noteFiles, foldersFile, now>>

\* the record saveNote writes
NoteToSave ==
    [currentNote EXCEPT !.title = IF noteTitle # <<>> THEN noteTitle ELSE UntitledNote,
                        !.content = noteContent,
                        !.folderId = currentNote.folderId]

SaveNote(writeOk, listOk, unreadable) ==
    /\ currentNote # NoNote
    /\ IF writeOk
       THEN /\ noteFiles' = WriteNoteFile(noteFiles, NoteToSave)
            /\ notes' = LoadNotes(noteFiles', listOk, unreadable)
            /\ ClearOpenNote
       ELSE UNCHANGED <<noteFiles, notes, currentNote, noteTitle, noteContent>>
    /\ last' = IF writeOk THEN Ran("saveNote", currentNote.id, "ok", "none", 0, FALSE)
               ELSE Ran("saveNote", NULL, "writeFailed", "none", 0, FALSE)
    /\ UNCHANGED offTree
    /\ UNCHANGED <<folders, currentFolderId, foldersFile, now>>

\* onNoteSelect={loadNote}
LoadNote(note) ==
    /\ currentNote' = note
    /\ noteTitle' = note.title
    /\ noteContent' = note.content
    /\ last' = Ran("select", NULL, "ok", "none", 0, FALSE)
    /\ UNCHANGED offTree
    /\ UNCHANGED <<notes, folders, currentFolderId, noteFiles, foldersFile, now>>

\* onFolderSelect={setCurrentFolderId}
FolderSelect(folderId) ==
    /\ currentFolderId # folderId
    /\ currentFolderId' = folderId
    /\ last' = Ran("select", NULL, "ok", "none", 0, FALSE)
    /\ UNCHANGED offTree
    /\ UNCHANGED <<notes, folders, currentNote, noteContent, noteTitle,
                   noteFiles, foldersFile, now>>

\* variant of NewFolder: Date.now() has not advanced since the last folder was
\* created, so the new folder gets that folder's id
NewFolderClockCollision(parentId, time) ==
    [id |-> IF folders = <<>> THEN ToStr(time) ELSE folders[Len(folders)].id,
     name |-> GenerateFolderName(folders, parentId),
     parentId |-> parentId, createdAt |-> time]

\* the Folder record createNewFolder builds at Date.now() = time
NewFolder(parentId, time) ==
    [id |-> ToStr(time), name |-> GenerateFolderName(folders, parentId),
     parentId |-> parentId, createdAt |-> time]

CreateNewFolder(parentId, writeOk) ==
    /\ now < MaxClock
    /\ Len(folders) < MaxFolders
    /\ SaveFolders(Append(folders, NewFolder(parentId, now + 1)), writeOk)
    /\ now' = IF writeOk THEN now + 1 ELSE now
    /\ last' = IF writeOk THEN Ran("createNewFolder", ToStr(now + 1), "ok", "none", 0, FALSE)
               ELSE Ran("createNewFolder", NULL, "writeFailed", "none", 0, FALSE)
    /\ UNCHANGED offTree
    /\ UNCHANGED <<notes, currentNote, noteContent, noteTitle, currentFolderId, noteFiles>>

\* what `last` records of a rename
RenameRan(op, id, raw, trimmed, index, writeOk) ==
    LET input == IF BlankInput(raw) THEN "blank" ELSE "text"
    IN  IF trimmed = <<>> THEN Ran(op, NULL, "blank", input, 0, FALSE)
        ELSE IF index = 0 THEN Ran(op, NULL, "missing", input, 0, FALSE)
        ELSE IF writeOk THEN Ran(op, id, "ok", input, 0, FALSE)
        ELSE Ran(op, NULL, "writeFailed", input, 0, FALSE)

\* renameNote past its two early returns: the try block
RenameNoteWrite(noteIndex, trimmedTitle, writeOk) ==
    LET noteToUpdate == [notes[noteIndex] EXCEPT !.title = trimmedTitle]
    IN  IF writeOk
        THEN /\ noteFiles' = WriteNoteFile(noteFiles, noteToUpdate)
             /\ notes' = [notes EXCEPT ![noteIndex] = noteToUpdate]
             /\ IF currentNote.id = noteToUpdate.id
                THEN /\ currentNote' = noteToUpdate
                     /\ noteTitle' = trimmedTitle
                ELSE UNCHANGED <<currentNote, noteTitle>>
        ELSE UNCHANGED <<noteFiles, notes, currentNote, noteTitle>>

RenameNote(noteId, newTitle, writeOk) ==
    LET trimmedTitle == Trim(newTitle)
        noteIndex == FindIndex(notes, noteId)
    IN  /\ IF trimmedTitle = <<>> \/ noteIndex = 0
           THEN UNCHANGED <<noteFiles, notes, currentNote, noteTitle>>
           ELSE RenameNoteWrite(noteIndex, trimmedTitle, writeOk)
        /\ last' = RenameRan("renameNote", noteId, newTitle, trimmedTitle, noteIndex, writeOk)
        /\ UNCHANGED offTree
        /\ UNCHANGED <<folders, noteContent, currentFolderId, foldersFile, now>>

\* variant of RenamedFolders: the entry is rebuilt without its parentId
RenamedFoldersRebuilt(fs, folderIndex, trimmedName) ==
    [fs EXCEPT ![folderIndex] =
        [id |-> fs[folderIndex].id, name |-> trimmedName, parentId |-> NULL,
         createdAt |-> fs[folderIndex].createdAt]]

\* const updatedFolders = [...folders]; updatedFolders[folderIndex] = {..., name}
RenamedFolders(fs, folderIndex, trimmedName) ==
    [fs EXCEPT ![folderIndex] = [fs[folderIndex] EXCEPT !.name = trimmedName]]

RenameFolder(folderId, newName, writeOk) ==
    LET trimmedName == Trim(newName)
        folderIndex == FindIndex(folders, folderId)
    IN  /\ IF trimmedName = <<>> \/ folderIndex = 0
           THEN UNCHANGED <<foldersFile, folders>>
           ELSE SaveFolders(RenamedFolders(folders, folderIndex, trimmedName), writeOk)
        /\ last' = RenameRan("renameFolder", folderId, newName, trimmedName, folderIndex, writeOk)
        /\ UNCHANGED offTree
        /\ UNCHANGED <<notes, currentNote, noteContent, noteTitle, currentFolderId,
                       noteFiles, now>>

\* variant of NotesWithout: the note is dropped only when its file was removed
NotesWithoutOnSuccess(ns, noteId, removeOk) ==
    IF removeOk THEN SelectSeq(ns, LAMBDA note : note.id # noteId) ELSE ns

\* notes.filter(note => note.id !== noteId), run whatever remove() did
NotesWithout(ns, noteId, removeOk) == SelectSeq(ns, LAMBDA note : note.id # noteId)

\* remove() fails on a missing file, and may fail on one that is there
DeleteNote(noteId, removeOk) ==
    /\ removeOk => noteId \in FileIds
    /\ noteFiles' = IF removeOk THEN RemoveNoteFiles(noteFiles, {noteId}) ELSE noteFiles
    /\ notes' = NotesWithout(notes, noteId, removeOk)
    /\ IF currentNote.id = noteId
       THEN ClearOpenNote
       ELSE UNCHANGED <<currentNote, noteTitle, noteContent>>
    /\ last' = Ran("deleteNote", noteId, IF removeOk THEN "ok" ELSE "removeFailed", "none",
                   Len(notes) - Len(notes'), currentNote.id = noteId)
    /\ UNCHANGED offTree
    /\ UNCHANGED <<folders, currentFolderId, foldersFile, now>>

\* if (currentNote && notesToDelete.some(note => note.id === currentNote.id))
OpenNoteDeleted(notesToDelete) ==
    currentNote # NoNote /\ currentNote.id \in Ids(notesToDelete)

\* variant of FolderSelectionAfterDelete: the selection is never reset
KeepFolderSelection(foldersToDelete) == currentFolderId

\* if (currentFolderId && foldersToDelete.has(currentFolderId)) setCurrentFolderId(null)
FolderSelectionAfterDelete(foldersToDelete) ==
    IF Truthy(currentFolderId) /\ currentFolderId \in foldersToDelete
    THEN NULL
    ELSE currentFolderId

\* failed: the notes whose file removal threw
DeleteFolder(folderId, failed, writeOk) ==
    LET foldersToDelete == GetDescendantFolderIds(folderId, folders)
        notesToDelete == NotesToDelete(notes, foldersToDelete)
    IN  /\ failed \subseteq Ids(notesToDelete)
        /\ Ids(notesToDelete) \ FileIds \subseteq failed
        /\ noteFiles' = RemoveNoteFiles(noteFiles, Ids(notesToDelete) \ failed)
        /\ notes' = RemainingNotes(notes, notesToDelete)
        /\ IF OpenNoteDeleted(notesToDelete)
           THEN ClearOpenNote
           ELSE UNCHANGED <<currentNote, noteTitle, noteContent>>
        /\ currentFolderId' = FolderSelectionAfterDelete(foldersToDelete)
        /\ SaveFolders(RemainingFolders(folders, foldersToDelete), writeOk)
        /\ last' = Ran("deleteFolder", folderId,
                       IF ~writeOk THEN "writeFailed"
                       ELSE IF failed # {} THEN "removeFailed" ELSE "ok",
                       "none",
                       (Len(folders) - Len(folders')) + (Len(notes) - Len(notes')),
                       OpenNoteDeleted(notesToDelete))
        /\ UNCHANGED offTree
        /\ UNCHANGED now

Next ==
    \/ CreateNewNote
    \/ \E title \in TitleInputs : EditTitle(title)
    \/ \E content \in ContentInputs : EditContent(content)
    \/ \E writeOk \in BOOLEAN : SaveNote(writeOk, TRUE, {})
    \/ \E note \in Range(notes) : LoadNote(note)
    \/ \E folderId \in Ids(folders) \cup {NULL} : FolderSelect(folderId)
    \/ \E parentId \in Ids(folders) \cup {NULL} : \E writeOk \in BOOLEAN :
           CreateNewFolder(parentId, writeOk)
    \/ \E noteId \in Ids(notes) : \E newTitle \in RenameInputs : \E writeOk \in BOOLEAN :
           RenameNote(noteId, newTitle, writeOk)
    \/ \E folderId \in Ids(folders) : \E newName \in RenameInputs : \E writeOk \in BOOLEAN :
           RenameFolder(folderId, newName, writeOk)
    \/ \E noteId \in Ids(notes) : \E removeOk \in BOOLEAN : DeleteNote(noteId, removeOk)
    \/ \E folderId \in Ids(folders) : \E failed \in SUBSET Ids(notes) : \E writeOk \in BOOLEAN :
           DeleteFolder(folderId, failed, writeOk)


Spec == Init /\ [][Next]_vars

(***************************************************************************)
(* loadData on a directory that holds notes: the listing of the directory, *)
(* the read of each entry and the read of the index each succeed or fail.  *)
(***************************************************************************)
MaxStored == 3   \* note files in the directory when the component mounts

\* the note files a directory can hold, each saved at its own time
StoredNotes ==
    {[id |-> ToStr(k), title |-> UntitledNote, content |-> <<>>, createdAt |-> k,
      folderId |-> IF k = 1 THEN ToStr(MaxStored + 1) ELSE NULL] : k \in 1..MaxStored}

\* the index: empty, or the one folder the first note is filed in
StoredIndexes ==
    {<<>>, <<[id |-> ToStr(MaxStored + 1), name |-> BaseName, parentId |-> NULL,
              createdAt |-> MaxStored + 1]>>}

\* the component mounts on a directory left by earlier sessions
InitLoad ==
    /\ notes = <<>>
    /\ folders = <<>>
    /\ currentNote = NoNote
    /\ noteContent = <<>>
    /\ noteTitle = <<>>
    /\ currentFolderId = NULL
    /\ noteFiles \in SUBSET StoredNotes
    /\ foldersFile \in StoredIndexes
    /\ now = MaxStored + 1
    /\ last = Ran("mount", NULL, "ok", "none", 0, FALSE)
    /\ DescIdle
    /\ EditIdle
    /\ FlightIdle

\* loadData: await loadNotes(); await loadFolders(). Both catch what they throw.
LoadData(listOk, unreadable, readOk) ==
    /\ unreadable \subseteq FileIds
    /\ notes' = LoadNotes(noteFiles, listOk, unreadable)
    /\ folders' = LoadFolders(foldersFile, readOk)
    /\ last' = Ran("loadData", [listOk |-> listOk, unreadable |-> unreadable, readOk |-> readOk],
                   "ok", "none", 0, FALSE)
    /\ UNCHANGED <<currentNote, noteContent, noteTitle, currentFolderId, noteFiles,
                   foldersFile, now>>
    /\ UNCHANGED offTree

\* the effect of mounting, run again whenever the component is mounted again
NextLoad ==
    \E listOk \in BOOLEAN : \E unreadable \in SUBSET FileIds : \E readOk \in BOOLEAN :
        LoadData(listOk, unreadable, readOk)

SpecLoad == InitLoad /\ [][NextLoad]_vars

(***************************************************************************)
(* getDescendantFolderIds, statement by statement, on any folder array:    *)
(* parentId pointers may form cycles and ids may repeat, as in an index    *)
(* that was edited by hand.                                                *)
(***************************************************************************)
DescIds == {<<"1">>, <<"2">>, <<"3">>}

DescFolders ==
    [id : DescIds, name : {BaseName}, parentId : DescIds \cup {NULL}, createdAt : {0}]

\* const stack = [folderId]; const descendants = new Set([folderId])
InitDesc ==
    /\ TreeInit
    /\ EditIdle
    /\ FlightIdle
    /\ \E n \in 0..MaxDescFolders : allFolders \in [1..n -> DescFolders]
    /\ \E folderId \in DescIds :
          /\ stack = <<folderId>>
          /\ descendants = {folderId}
          /\ pushLog = <<folderId>>
    /\ current = NULL
    /\ scanIndex = 0
    /\ pc = "loop"

\* while (stack.length > 0) { const current = stack.pop()!
DescPop ==
    /\ pc = "loop"
    /\ stack # <<>>
    /\ current' = stack[Len(stack)]
    /\ stack' = SubSeq(stack, 1, Len(stack) - 1)
    /\ scanIndex' = 1
    /\ pc' = "scan"
    /\ UNCHANGED <<allFolders, descendants, pushLog>>
    /\ UNCHANGED offDesc

\* one iteration of for (const folder of allFolders)
DescScan ==
    /\ pc = "scan"
    /\ scanIndex <= Len(allFolders)
    /\ IF ShouldVisit(allFolders[scanIndex], current, descendants)
       THEN /\ descendants' = descendants \cup {allFolders[scanIndex].id}
            /\ stack' = Append(stack, allFolders[scanIndex].id)
            /\ pushLog' = Append(pushLog, allFolders[scanIndex].id)
       ELSE UNCHANGED <<descendants, stack, pushLog>>
    /\ scanIndex' = scanIndex + 1
    /\ UNCHANGED <<allFolders, current, pc>>
    /\ UNCHANGED offDesc

\* the for-of loop is through: back to the while test
DescScanEnd ==
    /\ pc = "scan"
    /\ scanIndex > Len(allFolders)
    /\ pc' = "loop"
    /\ UNCHANGED <<allFolders, stack, descendants, current, scanIndex, pushLog>>
    /\ UNCHANGED offDesc

\* return descendants
DescReturn ==
    /\ pc = "loop"
    /\ stack = <<>>
    /\ pc' = "done"
    /\ UNCHANGED <<allFolders, stack, descendants, current, scanIndex, pushLog>>
    /\ UNCHANGED offDesc

NextDesc == DescPop \/ DescScan \/ DescScanEnd \/ DescReturn

\* the call runs synchronously: every statement that can run does
SpecDesc == InitDesc /\ [][NextDesc]_vars /\ WF_vars(NextDesc)

(***************************************************************************)
(* NoteView (src/unnamed/part_000): the markdown toolbar.  The buffer is   *)
(* the content prop, which App holds in noteContent; offsets count from 0  *)
(* as in JavaScript, -1 is "not found".                                    *)
(***************************************************************************)
NewLine == "\n"

\* the character U+0060, which a TLA+ string cannot hold: one element of a buffer
Backtick == "backtick"

\* how String.prototype.slice reads one of its arguments
SliceIndex(len, k) ==
    IF k < 0 THEN (IF len + k < 0 THEN 0 ELSE len + k)
    ELSE IF k > len THEN len ELSE k

\* value.slice(from, to)
Slice(s, from, to) ==
    LET a == SliceIndex(Len(s), from)
        b == SliceIndex(Len(s), to)
    IN  IF a >= b THEN <<>> ELSE SubSeq(s, a + 1, b)

\* value.slice(from)
SliceFrom(s, from) == Slice(s, from, Len(s))

\* value.lastIndexOf(ch, fromIndex): a negative fromIndex counts as 0
LastIndexOf(s, ch, fromIndex) ==
    LET from == IF fromIndex < 0 THEN 0
                ELSE IF fromIndex > Len(s) - 1 THEN Len(s) - 1 ELSE fromIndex
        hits == {k \in 0..from : k < Len(s) /\ s[k + 1] = ch}
    IN  IF hits = {} THEN -1 ELSE CHOOSE k \in hits : \A m \in hits : m <= k

\* value.indexOf(ch, fromIndex)
IndexOf(s, ch, fromIndex) ==
    LET from == IF fromIndex < 0 THEN 0 ELSE fromIndex
        hits == {k \in from..(Len(s) - 1) : s[k + 1] = ch}
    IN  IF hits = {} THEN -1 ELSE CHOOSE k \in hits : \A m \in hits : k <= m

\* block.split("\n")
RECURSIVE SplitLines(_)
SplitLines(s) ==
    LET at == IndexOf(s, NewLine, 0)
    IN  IF at = -1 THEN <<s>>
        ELSE <<Slice(s, 0, at)>> \o SplitLines(SliceFrom(s, at + 1))

\* lines.join("\n")
RECURSIVE JoinLines(_)
JoinLines(lines) ==
    IF lines = <<>> THEN <<>>
    ELSE IF Len(lines) = 1 THEN lines[1]
    ELSE lines[1] \o <<NewLine>> \o JoinLines(Tail(lines))

\* line.startsWith(prefix)
StartsWith(s, prefix) ==
    /\ Len(prefix) <= Len(s)
    /\ SubSeq(s, 1, Len(prefix)) = prefix

\* "#".repeat(count)
Repeat(ch, count) == [i \in 1..count |-> ch]

\* the length of the longest prefix of s whose characters are all in chars
RECURSIVE Run(_, _)
Run(s, chars) ==
    IF s # <<>> /\ Head(s) \in chars THEN 1 + Run(Tail(s), chars) ELSE 0

Spaces == {c \in {" ", "\t", "\n"} : IsSpace(c)}

Digits == {Digit(d) : d \in 0..9}

\* s without its first n characters
Drop(s, n) == SubSeq(s, n + 1, Len(s))

\* s without the whitespace it starts with: what a trailing \s* of a pattern eats
DropSpaces(s) == Drop(s, Run(s, Spaces))

\* variant of StripHeading: the pattern is /^#\s*/, one "#" at most is removed
StripHeadingOneHash(line) ==
    IF line # <<>> /\ Head(line) = "#" THEN DropSpaces(Tail(line)) ELSE line

\* line.replace(/^#{1,6}\s*/u, "")
StripHeading(line) ==
    LET hashes == Run(line, {"#"})
    IN  IF hashes = 0 THEN line
        ELSE DropSpaces(Drop(line, IF hashes > 6 THEN 6 ELSE hashes))

\* line.replace(/^\d+\.\s*/u, "")
StripNumber(line) ==
    LET digits == Run(line, Digits)
    IN  IF digits >= 1 /\ Len(line) > digits /\ line[digits + 1] = "."
        THEN DropSpaces(Drop(line, digits + 1))
        ELSE line

\* line.replace(/^>\s?/u, "")
StripQuote(line) ==
    IF line # <<>> /\ Head(line) = ">"
    THEN IF Len(line) >= 2 /\ line[2] \in Spaces THEN Drop(line, 2) ELSE Drop(line, 1)
    ELSE line

\* variant of StripBullet: the pattern is /^(-|\*)/, the whitespace stays
StripBulletMarkOnly(line) ==
    IF line # <<>> /\ Head(line) \in {"-", "*"} THEN Tail(line) ELSE line

\* line.replace(/^(-|\*)\s*/u, "")
StripBullet(line) ==
    IF line # <<>> /\ Head(line) \in {"-", "*"}
    THEN DropSpaces(Tail(line))
    ELSE line

\* line.replace(/^(-|\*)\s*\[( |x|X)\]\s*/u, "")
StripCheckbox(line) ==
    IF line # <<>> /\ Head(line) \in {"-", "*"}
    THEN LET box == DropSpaces(Tail(line))
         IN  IF /\ Len(box) >= 3
                /\ box[1] = "["
                /\ box[2] \in {" ", "x", "X"}
                /\ box[3] = "]"
             THEN DropSpaces(Drop(box, 3))
             ELSE line
    ELSE line

\* the TransformationResult a transformer returns
TransformationResult(value, selectionStart, selectionEnd) ==
    [value |-> value, selectionStart |-> selectionStart, selectionEnd |-> selectionEnd]

\* variant of WrapTransformer: the returned selection starts where the old one did
WrapSelectsFromStart(prefix, suffix, placeholder, collapseToEnd, value, start, end) ==
    LET hasSelection == start # end
        selected == IF hasSelection THEN Slice(value, start, end) ELSE placeholder
        insertion == prefix \o selected \o suffix
        nextValue == Slice(value, 0, start) \o insertion \o SliceFrom(value, end)
    IN  IF collapseToEnd
        THEN TransformationResult(nextValue, start + Len(insertion), start + Len(insertion))
        ELSE TransformationResult(nextValue, start, start + Len(selected))

\* variant of WrapTransformer: the tail is taken from start, not from end
WrapKeepsSelectedTail(prefix, suffix, placeholder, collapseToEnd, value, start, end) ==
    LET hasSelection == start # end
        selected == IF hasSelection THEN Slice(value, start, end) ELSE placeholder
        insertion == prefix \o selected \o suffix
        nextValue == Slice(value, 0, start) \o insertion \o SliceFrom(value, start)
    IN  IF collapseToEnd
        THEN TransformationResult(nextValue, start + Len(insertion), start + Len(insertion))
        ELSE TransformationResult(nextValue, start + Len(prefix),
                                  start + Len(prefix) + Len(selected))

\* the transformer wrapSelection hands to applyTransformation
WrapTransformer(prefix, suffix, placeholder, collapseToEnd, value, start, end) ==
    LET hasSelection == start # end
        selected == IF hasSelection THEN Slice(value, start, end) ELSE placeholder
        insertion == prefix \o selected \o suffix
        nextValue == Slice(value, 0, start) \o insertion \o SliceFrom(value, end)
    IN  IF collapseToEnd
        THEN TransformationResult(nextValue, start + Len(insertion), start + Len(insertion))
        ELSE TransformationResult(nextValue, start + Len(prefix),
                                  start + Len(prefix) + Len(selected))

\* variant of PrefixCaret: the whole insertion is selected, marker included
PrefixCaretSelectsInsertion(prefix, placeholder, value, start, end) ==
    LET insertion == prefix \o placeholder
        nextValue == Slice(value, 0, start) \o insertion \o SliceFrom(value, end)
    IN  TransformationResult(nextValue, start, start + Len(insertion))

\* prefixLines with a caret: insert prefix + placeholder, select the placeholder
PrefixCaret(prefix, placeholder, value, start, end) ==
    LET insertion == prefix \o placeholder
        nextValue == Slice(value, 0, start) \o insertion \o SliceFrom(value, end)
        cursorStart == start + Len(prefix)
    IN  TransformationResult(nextValue, cursorStart, cursorStart + Len(placeholder))

\* let lineStart = value.lastIndexOf("\n", start - 1); -1 ? 0 : lineStart + 1
LineStart(value, start) ==
    LET found == LastIndexOf(value, NewLine, start - 1)
    IN  IF found = -1 THEN 0 ELSE found + 1

\* let lineEnd = value.indexOf("\n", end); -1 ? value.length : lineEnd
LineEnd(value, end) ==
    LET found == IndexOf(value, NewLine, end)
    IN  IF found = -1 THEN Len(value) ELSE found

\* transformedLine.startsWith(prefix) ? transformedLine : `${prefix}${transformedLine}`
MarkLine(prefix, transformedLine) ==
    IF StartsWith(transformedLine, prefix) THEN transformedLine
    ELSE prefix \o transformedLine

\* prefixLines with a selection: rewrite the lines the selection touches
PrefixBlock(prefix, TransformLine(_, _), value, start, end) ==
    LET lineStart == LineStart(value, start)
        lineEnd == LineEnd(value, end)
        lines == SplitLines(Slice(value, lineStart, lineEnd))
        formatted == JoinLines([i \in 1..Len(lines) |->
                                   MarkLine(prefix, TransformLine(lines[i], i - 1))])
        nextValue == Slice(value, 0, lineStart) \o formatted \o SliceFrom(value, lineEnd)
    IN  TransformationResult(nextValue, lineStart, lineStart + Len(formatted))

\* the transformer prefixLines hands to applyTransformation
PrefixTransformer(prefix, placeholder, TransformLine(_, _), value, start, end) ==
    IF start = end
    THEN PrefixCaret(prefix, placeholder, value, start, end)
    ELSE PrefixBlock(prefix, TransformLine, value, start, end)

\* variant of HeadingHashes: the level is used as given
HeadingHashesUnclamped(level) == level

\* Math.min(Math.max(level, 1), 6)
HeadingHashes(level) ==
    LET atLeast == IF level > 1 THEN level ELSE 1
    IN  IF atLeast < 6 THEN atLeast ELSE 6

\* `${hashes} `
HeadingPrefix(level) == Repeat("#", HeadingHashes(level)) \o <<" ">>

\* `${level}` of a number that may be negative
NumberText(n) == IF n < 0 THEN <<"-">> \o ToStr(0 - n) ELSE ToStr(n)

\* `Heading ${level}`
HeadingPlaceholder(level) == <<"H", "e", "a", "d", "i", "n", "g", " ">> \o NumberText(level)

InsertHeadingTransformer(level, value, start, end) ==
    PrefixTransformer(HeadingPrefix(level), HeadingPlaceholder(level),
                      LAMBDA line, index : StripHeading(line), value, start, end)

QuotePrefix == <<">", " ">>
QuotePlaceholder == <<"Q", "u", "o", "t", "e">>

BlockquoteTransformer(value, start, end) ==
    PrefixTransformer(QuotePrefix, QuotePlaceholder,
                      LAMBDA line, index : StripQuote(line), value, start, end)

BulletPrefix == <<"-", " ">>
BulletPlaceholder == <<"L", "i", "s", "t", " ", "i", "t", "e", "m">>

BulletListTransformer(value, start, end) ==
    PrefixTransformer(BulletPrefix, BulletPlaceholder,
                      LAMBDA line, index : StripBullet(line), value, start, end)

\* `${index + 1}. ${cleaned}`
OrderedLine(line, index) ==
    ToStr(index + 1) \o <<".", " ">> \o TrimStart(StripNumber(line))

OrderedPlaceholder == <<"1", ".", " ", "L", "i", "s", "t", " ", "i", "t", "e", "m">>

InsertOrderedListTransformer(value, start, end) ==
    PrefixTransformer(<<>>, OrderedPlaceholder, OrderedLine, value, start, end)

TaskWord == <<"T", "a", "s", "k">>

\* cleaned ? cleaned : "Task"
ChecklistLine(line, index) ==
    LET cleaned == StripBullet(StripCheckbox(line))
    IN  IF cleaned # <<>> THEN cleaned ELSE TaskWord

ChecklistPrefix == <<"-", " ", "[", " ", "]", " ">>
ChecklistPlaceholder == <<"T", "o", "-", "d", "o", " ", "i", "t", "e", "m">>

InsertChecklistTransformer(value, start, end) ==
    PrefixTransformer(ChecklistPrefix, ChecklistPlaceholder, ChecklistLine, value, start, end)

RuleInsertion == <<NewLine, NewLine, "-", "-", "-", NewLine, NewLine>>

\* variant of InsertHorizontalRuleTransformer: the caret is counted from the end
\* of the selection the rule replaced
RuleCaretAfterSelection(value, start, end) ==
    LET nextValue == Slice(value, 0, start) \o RuleInsertion \o SliceFrom(value, end)
        caret == end + Len(RuleInsertion)
    IN  TransformationResult(nextValue, caret, caret)

InsertHorizontalRuleTransformer(value, start, end) ==
    LET nextValue == Slice(value, 0, start) \o RuleInsertion \o SliceFrom(value, end)
        caret == start + Len(RuleInsertion)
    IN  TransformationResult(nextValue, caret, caret)

UrlPlaceholder == <<"h", "t", "t", "p", "s", ":", "/", "/">>
LinkText == <<"L", "i", "n", "k", " ", "t", "e", "x", "t">>
AltText == <<"A", "l", "t", " ", "t", "e", "x", "t">>

InsertLinkTransformer(value, start, end) ==
    LET label == IF start # end THEN Slice(value, start, end) ELSE LinkText
        linkSyntax == <<"[">> \o label \o <<"]", "(">> \o UrlPlaceholder \o <<")">>
        nextValue == Slice(value, 0, start) \o linkSyntax \o SliceFrom(value, end)
        urlStart == start + Len(label) + 3
    IN  TransformationResult(nextValue, urlStart, urlStart + Len(UrlPlaceholder))

\* variant of InsertImageTransformer: the URL offset is counted as in insertLink
ImageUrlOffsetOfLink(value, start, end) ==
    LET altText == IF start # end THEN Slice(value, start, end) ELSE AltText
        imageSyntax == <<"!", "[">> \o altText \o <<"]", "(">> \o UrlPlaceholder \o <<")">>
        nextValue == Slice(value, 0, start) \o imageSyntax \o SliceFrom(value, end)
        urlStart == start + Len(altText) + 3
    IN  TransformationResult(nextValue, urlStart, urlStart + Len(UrlPlaceholder))

InsertImageTransformer(value, start, end) ==
    LET altText == IF start # end THEN Slice(value, start, end) ELSE AltText
        imageSyntax == <<"!", "[">> \o altText \o <<"]", "(">> \o UrlPlaceholder \o <<")">>
        nextValue == Slice(value, 0, start) \o imageSyntax \o SliceFrom(value, end)
        urlStart == start + Len(altText) + 4
    IN  TransformationResult(nextValue, urlStart, urlStart + Len(UrlPlaceholder))

(***************************************************************************)
(* The toolbar calls, the textarea and applyTransformation.                *)
(***************************************************************************)
MaxLines == 2   \* lines of the buffer a note is opened with
MaxEdits == 2   \* toolbar calls made on one buffer

\* what one toolbar call is made with
Call(kind, level, prefix, suffix, placeholder, collapseToEnd) ==
    [kind |-> kind, level |-> level, prefix |-> prefix, suffix |-> suffix,
     placeholder |-> placeholder, collapseToEnd |-> collapseToEnd]

WrapCall(prefix, suffix, placeholder, collapseToEnd) ==
    Call("wrap", 0, prefix, suffix, placeholder, collapseToEnd)

\* the Bold, Italic, Strikethrough, Inline code and Code block buttons
BoldCall == WrapCall(<<"*", "*">>, <<"*", "*">>, <<"B", "o", "l", "d", " ", "t", "e", "x", "t">>, FALSE)
ItalicCall == WrapCall(<<"*">>, <<"*">>, <<"I", "t", "a", "l", "i", "c", " ", "t", "e", "x", "t">>, FALSE)
StrikethroughCall == WrapCall(<<"~", "~">>, <<"~", "~">>, <<"S", "t", "r", "i", "k", "e", "t", "h", "r", "o", "u", "g", "h">>, FALSE)
InlineCodeCall == WrapCall(<<Backtick>>, <<Backtick>>, <<"c", "o", "d", "e">>, FALSE)
CodeBlockCall == WrapCall(<<Backtick, Backtick, Backtick, NewLine>>, <<NewLine, Backtick, Backtick, Backtick>>, <<"C", "o", "d", "e", " ", "b", "l", "o", "c", "k">>, FALSE)

\* the calls wrapSelection is driven with: the five buttons, and two calls that
\* use the options no button passes (collapseToEnd, the default placeholder "")
WrapCalls ==
    {BoldCall, ItalicCall, StrikethroughCall, InlineCodeCall, CodeBlockCall,
     WrapCall(<<"*", "*">>, <<"*", "*">>, <<"B", "o", "l", "d", " ", "t", "e", "x", "t">>, TRUE),
     WrapCall(<<"_">>, <<>>, <<>>, TRUE)}

\* the levels insertHeading is driven with: the H1..H3 buttons, the ends of the
\* range and levels outside it
HeadingLevels == {-1, 0, 1, 2, 3, 6, 9}

\* the lines a note's content is made of when it is opened
SampleLines ==
    {<<>>, <<"a">>, <<" ", "a">>, <<"#", " ", "a">>, <<"-", " ", "a">>,
     <<"2", ".", " ", "a">>, <<">", " ", "a">>, <<"-", " ", "[", "x", "]", " ", "a">>,
     <<"#", " ", " ", "a">>}

Buffers ==
    {JoinLines(lines) : lines \in UNION {[1..n -> SampleLines] : n \in 1..MaxLines}}

\* the buffers on which more than one toolbar call is followed
RepeatBuffers ==
    {<<>>, <<"a">>, <<" ", "a", NewLine, "#", " ", " ", "a">>}

\* the buffer of the bold scenario
HelloWorld == <<"h", "e", "l", "l", "o", " ", "w", "o", "r", "l", "d">>

\* a selection the textarea can hold: 0 <= start <= end <= value.length
Selections(value) ==
    {[start |-> a, end |-> b] : a, b \in 0..Len(value)} \cap
    {sel \in [start : 0..Len(value), end : 0..Len(value)] : sel.start <= sel.end}

\* variant of SelectionAfterRender: the textarea keeps the offsets it had
SelectionKeptAfterRender(oldValue, newValue, sel) == sel

\* the textarea after React has written a new value prop to it: a value that
\* differs moves the cursor to the end of the text and unselects
SelectionAfterRender(oldValue, newValue, sel) ==
    IF newValue = oldValue THEN sel
    ELSE [start |-> Len(newValue), end |-> Len(newValue)]

\* target.setSelectionRange(start, end) on a textarea holding len characters
SetSelectionRange(start, end, len) ==
    LET e == IF end > len THEN len ELSE end
        st == IF start > e THEN e ELSE start
    IN  [start |-> st, end |-> e]

\* Math.max(0, Math.min(value.length, offset))
Clamp(length, offset) ==
    LET atMost == IF offset < length THEN offset ELSE length
    IN  IF atMost > 0 THEN atMost ELSE 0

\* a note was created and its content typed; the textarea holds the content
\* and any selection the user made in it
InitText ==
    /\ notes = <<>>
    /\ folders = <<>>
    /\ currentNote = [id |-> ToStr(1), title |-> <<>>, content |-> <<>>,
                      createdAt |-> 1, folderId |-> NULL]
    /\ noteContent \in Buffers \cup {HelloWorld}
    /\ noteTitle = <<>>
    /\ currentFolderId = NULL
    /\ noteFiles = {}
    /\ foldersFile = <<>>
    /\ now = 1
    /\ last = Ran("edit", NULL, "ok", "none", 0, FALSE)
    /\ DescIdle
    /\ FlightIdle
    /\ viewMode = "edit"
    /\ selection \in Selections(noteContent)
    /\ frames = <<>>
    /\ applied = <<>>

\* the toolbar calls that are followed: one on every buffer, up to MaxEdits on
\* the buffers of RepeatBuffers
MoreEdits ==
    IF applied = <<>> THEN TRUE
    ELSE Len(applied) < MaxEdits /\ applied[1].value \in RepeatBuffers

\* applyTransformation(transformer), where result is what transformer(content,
\* selection) returns: onContentChange(value), the render that follows the
\* click handler, and requestAnimationFrame(callback)
ApplyTransformation(call, result) ==
    /\ viewMode = "edit"
    /\ currentNote # NoNote
    /\ MoreEdits
    /\ noteContent' = result.value
    /\ selection' = SelectionAfterRender(noteContent, result.value, selection)
    /\ frames' = Append(frames, [id |-> Len(applied) + 1,
                                 length |-> Len(result.value),
                                 selectionStart |-> result.selectionStart,
                                 selectionEnd |-> result.selectionEnd])
    /\ applied' = Append(applied, [call |-> call, value |-> noteContent,
                                   start |-> selection.start, end |-> selection.end,
                                   result |-> result, callbacks |-> <<>>])
    /\ UNCHANGED <<notes, folders, currentNote, noteTitle, currentFolderId, noteFiles,
                   foldersFile, now, last>>
    /\ UNCHANGED <<viewMode, descVars, flightVars>>

WrapSelection(call) ==
    ApplyTransformation(call,
        WrapTransformer(call.prefix, call.suffix, call.placeholder, call.collapseToEnd,
                        noteContent, selection.start, selection.end))

InsertHeading(level) ==
    ApplyTransformation(
        Call("heading", level, HeadingPrefix(level), <<>>, HeadingPlaceholder(level), FALSE),
        InsertHeadingTransformer(level, noteContent, selection.start, selection.end))

Blockquote ==
    ApplyTransformation(Call("blockquote", 0, QuotePrefix, <<>>, QuotePlaceholder, FALSE),
        BlockquoteTransformer(noteContent, selection.start, selection.end))

BulletList ==
    ApplyTransformation(Call("bullet", 0, BulletPrefix, <<>>, BulletPlaceholder, FALSE),
        BulletListTransformer(noteContent, selection.start, selection.end))

InsertOrderedList ==
    ApplyTransformation(Call("ordered", 0, <<>>, <<>>, OrderedPlaceholder, FALSE),
        InsertOrderedListTransformer(noteContent, selection.start, selection.end))

InsertChecklist ==
    ApplyTransformation(Call("checklist", 0, ChecklistPrefix, <<>>, ChecklistPlaceholder, FALSE),
        InsertChecklistTransformer(noteContent, selection.start, selection.end))

InsertHorizontalRule ==
    ApplyTransformation(Call("rule", 0, <<>>, <<>>, <<>>, FALSE),
        InsertHorizontalRuleTransformer(noteContent, selection.start, selection.end))

InsertLink ==
    ApplyTransformation(Call("link", 0, <<>>, <<>>, LinkText, FALSE),
        InsertLinkTransformer(noteContent, selection.start, selection.end))

InsertImage ==
    ApplyTransformation(Call("image", 0, <<>>, <<>>, AltText, FALSE),
        InsertImageTransformer(noteContent, selection.start, selection.end))

\* textareaRef.current: the textarea is rendered while a note is open in edit mode
Mounted == currentNote # NoNote /\ viewMode = "edit"

\* variant of FramesAfterCallback: the callback stays registered for the next frame
FramesKeepCallback(queue) == queue

\* requestAnimationFrame runs a callback once: it leaves the queue as it runs
FramesAfterCallback(queue) == Tail(queue)

\* the callback of requestAnimationFrame: return when the textarea is gone,
\* else clamp against the value the call produced, then
\* target.setSelectionRange on the textarea as it is now; `applied` records
\* for each call every run of its callback: whether it restored the selection,
\* how many calls had handed their content to the host by then, and the
\* selection of the textarea after it
RestoreSelection ==
    /\ frames # <<>>
    /\ LET frame == Head(frames)
           target == SetSelectionRange(Clamp(frame.length, frame.selectionStart),
                                       Clamp(frame.length, frame.selectionEnd),
                                       Len(noteContent))
       IN  /\ selection' = IF Mounted THEN target ELSE selection
           /\ applied' = [applied EXCEPT ![frame.id].callbacks =
                              Append(@, [restored |-> Mounted, after |-> Len(applied),
                                         start |-> selection'.start, end |-> selection'.end])]
    /\ frames' = FramesAfterCallback(frames)
    /\ UNCHANGED <<treeVars, descVars, flightVars, viewMode>>

\* the Edit and View buttons of the sidebar: the textarea is unmounted in view
\* mode, and the textarea mounted on the way back has its caret at the start
\* or at the end of the content, as the browser has it
ViewModeChange(mode, caret) ==
    /\ viewMode # mode
    /\ viewMode' = mode
    /\ caret \in {0, Len(noteContent)}
    /\ selection' = IF mode = "edit" THEN [start |-> caret, end |-> caret] ELSE selection
    /\ UNCHANGED <<treeVars, descVars, flightVars, frames, applied>>

\* the user selects text or places the caret in the textarea
Select(start, end) ==
    /\ currentNote # NoNote
    /\ viewMode = "edit"
    /\ [start |-> start, end |-> end] \in Selections(noteContent)
    /\ selection # [start |-> start, end |-> end]
    /\ selection' = [start |-> start, end |-> end]
    /\ UNCHANGED <<treeVars, descVars, flightVars, viewMode, frames, applied>>

\* the toolbar buttons, the frame callback, and the user collapsing the
\* selection to one of its ends (ArrowLeft, ArrowRight)
NextText ==
    \/ \E level \in HeadingLevels : InsertHeading(level)
    \/ \E call \in WrapCalls : WrapSelection(call)
    \/ Blockquote
    \/ BulletList
    \/ InsertOrderedList
    \/ InsertChecklist
    \/ InsertHorizontalRule
    \/ InsertLink
    \/ InsertImage
    \/ RestoreSelection
    \/ MoreEdits /\ \E caret \in {selection.start, selection.end} : Select(caret, caret)

SpecText == InitText /\ [][NextText]_vars

\* the same session on the buffers of RepeatBuffers, opened with the caret at
\* the start or with all of the text selected, and with the user also
\* switching between edit and view mode
InitFrame ==
    /\ InitText
    /\ noteContent \in RepeatBuffers
    /\ selection.start = 0
    /\ selection.end \in {0, Len(noteContent)}

NextFrame ==
    \/ NextText
    \/ \E mode \in {"edit", "view"} : \E caret \in {0, Len(noteContent)} :
           ViewModeChange(mode, caret)

SpecFrame == InitFrame /\ [][NextFrame]_vars

\* lines that carry a heading marker of level 1..6: the "#", one space, and a
\* text that is empty, plain, or itself begins like a heading
HeadedLines ==
    {Repeat("#", j) \o <<" ">> \o text :
        j \in 1..6, text \in {<<>>, <<"a">>, <<"#", " ", "a">>, <<"#", "#", " ", "a">>}}

\* a note made of headed lines is open, and the user has selected its first
\* character or all of it
InitHeading ==
    /\ notes = <<>>
    /\ folders = <<>>
    /\ currentNote = [id |-> ToStr(1), title |-> <<>>, content |-> <<>>,
                      createdAt |-> 1, folderId |-> NULL]
    /\ noteContent \in {JoinLines(lines) :
                            lines \in UNION {[1..n -> HeadedLines] : n \in 1..MaxLines}}
    /\ noteTitle = <<>>
    /\ currentFolderId = NULL
    /\ noteFiles = {}
    /\ foldersFile = <<>>
    /\ now = 1
    /\ last = Ran("edit", NULL, "ok", "none", 0, FALSE)
    /\ DescIdle
    /\ FlightIdle
    /\ viewMode = "edit"
    /\ selection \in {sel \in Selections(noteContent) :
                          sel.start = 0 /\ sel.end \in {1, Len(noteContent)}}
    /\ frames = <<>>
    /\ applied = <<>>

\* the heading buttons, and the frame callback
NextHeading ==
    \/ \E level \in HeadingLevels : InsertHeading(level)
    \/ RestoreSelection

SpecHeading == InitHeading /\ [][NextHeading]_vars

(***************************************************************************)
(* The handlers of App with their awaits: a handler runs up to its first   *)
(* storage call, the call settles at some later time, and the rest of the  *)
(* handler then runs with the notes, folders and open note it captured     *)
(* when it was called.  Nothing in App or Sidebar disables a control while *)
(* a call is pending, so other handlers start in between.                  *)
(***************************************************************************)
MaxLaunch == 3   \* handler calls that reach a storage call

\* "notes/folders.json", told apart from `notes/${id}.json`, which is named by id
IndexPath == <<"folders.json">>

\* one pending storage call and what its handler does once it settled: the
\* handler; "write" or "remove"; the file; the index or the note being written;
\* the notes to set; the ids still to remove; whether the open note is cleared
\* (deleteNote, deleteFolder) or replaced (renameNote) and whether the folder
\* selection is reset
Pending(id, op, call, path, foldersToSave, note, notesAfter, queue, touchesOpen, resets) ==
    [id |-> id, op |-> op, call |-> call, path |-> path, foldersToSave |-> foldersToSave,
     note |-> note, notesAfter |-> notesAfter, queue |-> queue,
     touchesOpen |-> touchesOpen, resets |-> resets]

\* await saveFolders(foldersToSave), up to the writeTextFile it awaits
PendingIndexWrite(id, op, foldersToSave) ==
    Pending(id, op, "write", IndexPath, foldersToSave, NoNote, <<>>, <<>>, FALSE, FALSE)

\* a handler call reaches its first await
Launch(pending) ==
    /\ launched < MaxLaunch
    /\ launched' = launched + 1
    /\ inflight' = inflight \cup {pending}

StartCreateNewFolder(parentId) ==
    /\ now < MaxClock
    /\ Len(folders) < MaxFolders
    /\ now' = now + 1
    /\ Launch(PendingIndexWrite(launched + 1, "createNewFolder",
                                Append(folders, NewFolder(parentId, now + 1))))
    /\ UNCHANGED <<notes, folders, currentNote, noteContent, noteTitle, currentFolderId,
                   noteFiles, foldersFile, last>>
    /\ UNCHANGED <<descVars, editVars>>

StartRenameFolder(folderId, newName) ==
    /\ Trim(newName) # <<>>
    /\ FindIndex(folders, folderId) # 0
    /\ Launch(PendingIndexWrite(launched + 1, "renameFolder",
                  RenamedFolders(folders, FindIndex(folders, folderId), Trim(newName))))
    /\ UNCHANGED <<treeVars, descVars, editVars>>

StartSaveNote ==
    /\ currentNote # NoNote
    /\ Launch(Pending(launched + 1, "saveNote", "write", currentNote.id, <<>>, NoteToSave,
                      <<>>, <<>>, FALSE, FALSE))
    /\ UNCHANGED <<treeVars, descVars, editVars>>

StartRenameNote(noteId, newTitle) ==
    /\ Trim(newTitle) # <<>>
    /\ FindIndex(notes, noteId) # 0
    /\ LET noteIndex == FindIndex(notes, noteId)
           noteToUpdate == [notes[noteIndex] EXCEPT !.title = Trim(newTitle)]
       IN  Launch(Pending(launched + 1, "renameNote", "write", noteId, <<>>, noteToUpdate,
                          [notes EXCEPT ![noteIndex] = noteToUpdate], <<>>,
                          currentNote.id = noteId, FALSE))
    /\ UNCHANGED <<treeVars, descVars, editVars>>

StartDeleteNote(noteId) ==
    /\ Launch(Pending(launched + 1, "deleteNote", "remove", noteId, <<>>, NoNote,
                      NotesWithout(notes, noteId, TRUE), <<>>,
                      currentNote.id = noteId, FALSE))
    /\ UNCHANGED <<treeVars, descVars, editVars>>

\* deleteFolder up to its first await: the first remove() when the subtree
\* holds notes, else the state updates and the writeTextFile of saveFolders
StartDeleteFolder(folderId) ==
    LET foldersToDelete == GetDescendantFolderIds(folderId, folders)
        notesToDelete == NotesToDelete(notes, foldersToDelete)
        remainingFolders == RemainingFolders(folders, foldersToDelete)
    IN  /\ IF notesToDelete = <<>>
           THEN /\ Launch(PendingIndexWrite(launched + 1, "deleteFolder", remainingFolders))
                /\ notes' = RemainingNotes(notes, notesToDelete)
                /\ currentFolderId' = FolderSelectionAfterDelete(foldersToDelete)
           ELSE /\ Launch(Pending(launched + 1, "deleteFolder", "remove", notesToDelete[1].id,
                                  remainingFolders, NoNote,
                                  RemainingNotes(notes, notesToDelete),
                                  [k \in 1..(Len(notesToDelete) - 1) |-> notesToDelete[k + 1].id],
                                  OpenNoteDeleted(notesToDelete),
                                  Truthy(currentFolderId) /\ currentFolderId \in foldersToDelete))
                /\ UNCHANGED <<notes, currentFolderId>>
        /\ UNCHANGED <<folders, currentNote, noteContent, noteTitle, noteFiles, foldersFile,
                       now, last>>
        /\ UNCHANGED <<descVars, editVars>>

\* the writeTextFile of saveFolders settles: setFolders, or the catch
SettleIndexWrite(w, writeOk) ==
    /\ w \in inflight
    /\ w.call = "write"
    /\ w.path = IndexPath
    /\ SaveFolders(w.foldersToSave, writeOk)
    /\ inflight' = inflight \ {w}
    /\ UNCHANGED <<notes, currentNote, noteContent, noteTitle, currentFolderId, noteFiles,
                   now, last>>
    /\ UNCHANGED <<descVars, editVars, launched>>

\* the writeTextFile of saveNote or renameNote settles
SettleNoteWrite(w, writeOk) ==
    /\ w \in inflight
    /\ w.call = "write"
    /\ w.path # IndexPath
    /\ IF ~writeOk
       THEN UNCHANGED <<noteFiles, notes, currentNote, noteTitle, noteContent>>
       ELSE /\ noteFiles' = WriteNoteFile(noteFiles, w.note)
            /\ IF w.op = "saveNote"
               THEN /\ notes' = LoadNotes(noteFiles', TRUE, {})
                    /\ ClearOpenNote
               ELSE /\ notes' = w.notesAfter
                    /\ IF w.touchesOpen
                       THEN /\ currentNote' = w.note
                            /\ noteTitle' = w.note.title
                       ELSE UNCHANGED <<currentNote, noteTitle>>
                    /\ UNCHANGED noteContent
    /\ inflight' = inflight \ {w}
    /\ UNCHANGED <<folders, currentFolderId, foldersFile, now, last>>
    /\ UNCHANGED <<descVars, editVars, launched>>

\* a remove() of deleteNote or deleteFolder settles: the next remove of the
\* loop, or the state updates that follow it and, for deleteFolder, saveFolders
SettleRemove(w, removeOk) ==
    /\ w \in inflight
    /\ w.call = "remove"
    /\ removeOk => w.path \in FileIds
    /\ noteFiles' = IF removeOk THEN RemoveNoteFiles(noteFiles, {w.path}) ELSE noteFiles
    /\ IF w.queue # <<>>
       THEN /\ inflight' = (inflight \ {w}) \cup
                               {[w EXCEPT !.path = Head(w.queue), !.queue = Tail(w.queue)]}
            /\ UNCHANGED <<notes, currentNote, noteTitle, noteContent, currentFolderId>>
       ELSE /\ notes' = w.notesAfter
            /\ IF w.touchesOpen
               THEN ClearOpenNote
               ELSE UNCHANGED <<currentNote, noteTitle, noteContent>>
            /\ currentFolderId' = IF w.resets THEN NULL ELSE currentFolderId
            /\ inflight' = (inflight \ {w}) \cup
                               (IF w.op = "deleteFolder"
                                THEN {PendingIndexWrite(w.id, "deleteFolder", w.foldersToSave)}
                                ELSE {})
    /\ UNCHANGED <<folders, foldersFile, now, last>>
    /\ UNCHANGED <<descVars, editVars, launched>>

NextAsync ==
    \/ CreateNewNote
    \/ \E folderId \in Ids(folders) \cup {NULL} : FolderSelect(folderId)
    \/ \E parentId \in Ids(folders) \cup {NULL} : StartCreateNewFolder(parentId)
    \/ \E folderId \in Ids(folders) : \E newName \in RenameInputs :
           StartRenameFolder(folderId, newName)
    \/ \E folderId \in Ids(folders) : StartDeleteFolder(folderId)
    \/ StartSaveNote
    \/ \E noteId \in Ids(notes) : \E newTitle \in RenameInputs : StartRenameNote(noteId, newTitle)
    \/ \E noteId \in Ids(notes) : StartDeleteNote(noteId)
    \/ \E w \in inflight : \E writeOk \in BOOLEAN : SettleIndexWrite(w, writeOk)
    \/ \E w \in inflight : \E writeOk \in BOOLEAN : SettleNoteWrite(w, writeOk)
    \/ \E w \in inflight : \E removeOk \in BOOLEAN : SettleRemove(w, removeOk)

SpecAsync == Init /\ [][NextAsync]_vars

(***************************************************************************)
(* Properties of the tree model.                                           *)
(***************************************************************************)
\* id's parentId chain passes through target within fuel steps
RECURSIVE ChainReaches(_, _, _, _)
ChainReaches(fs, id, target, fuel) ==
    /\ fuel > 0
    /\ \E i \in 1..Len(fs) :
          /\ fs[i].id = id
          /\ \/ fs[i].parentId = target
             \/ ChainReaches(fs, fs[i].parentId, target, fuel - 1)

\* id and every folder whose parentId chain passes through id
Subtree(fs, id) == {id} \cup {fid \in Ids(fs) : ChainReaches(fs, fid, id, Len(fs))}

\* C1: a deleteFolder(id) whose storage calls all succeed removes from memory
\* exactly the folders of the subtree of id and exactly the notes whose folderId
\* is in it; every other folder and note stays, unchanged and in order.
C1_CascadingDelete ==
    [][(last'.op = "deleteFolder" /\ last'.outcome = "ok") =>
        LET doomed == Subtree(folders, last'.arg)
        IN  /\ folders' = SelectSeq(folders, LAMBDA f : f.id \notin doomed)
            /\ notes' = SelectSeq(notes, LAMBDA n : n.folderId \notin doomed)
            /\ \A i \in 1..Len(notes) : notes[i].folderId = NULL => notes[i] \in Range(notes')
       ]_vars

\* a cascading delete that removed at least two entities and left one behind
C1_Witness ==
    /\ last.op = "deleteFolder"
    /\ last.outcome = "ok"
    /\ last.removed >= 2
    /\ Len(folders) + Len(notes) >= 1

\* C3: every note in memory and in storage has folderId null or the id of a
\* folder of the folder collection.
C3_NotesReferenceFolders ==
    \A n \in Range(notes) \cup noteFiles :
        n.folderId = NULL \/ n.folderId \in Ids(folders)

LeastFreeNumber(names) ==
    CHOOSE k \in 2..(Cardinality(names) + 2) :
        /\ NumberedName(k) \notin names
        /\ \A j \in 2..(k - 1) : NumberedName(j) \in names

\* C5: a created folder is appended with the name "New Folder" when no folder
\* with the same parent has that trimmed name, else "New Folder k" for the
\* smallest k >= 2 no sibling uses; other parents' folders do not count.
C5_DefaultNamePerParent ==
    [][(last'.op = "createNewFolder" /\ last'.outcome = "ok") =>
        /\ Len(folders') = Len(folders) + 1
        /\ SubSeq(folders', 1, Len(folders)) = folders
        /\ LET new == folders'[Len(folders')]
               taken == {Trim(f.name) : f \in {g \in Range(folders) : g.parentId = new.parentId}}
           IN  /\ new.id = last'.arg
               /\ new.name = IF BaseName \notin taken
                             THEN BaseName
                             ELSE NumberedName(LeastFreeNumber(taken))
       ]_vars

\* "New Folder" and "New Folder 2" under the root, "New Folder" again under one of them
C5_Witness ==
    /\ last.op = "createNewFolder"
    /\ last.outcome = "ok"
    /\ \E i, j, k \in 1..Len(folders) :
          /\ folders[i].parentId = NULL /\ folders[i].name = BaseName
          /\ folders[j].parentId = NULL /\ folders[j].name = NumberedName(2)
          /\ folders[k].parentId # NULL /\ folders[k].name = BaseName

\* C6: renameFolder and renameNote with an empty or whitespace-only value write
\* nothing to storage and change nothing in memory.
C6_BlankRenameIsNoOp ==
    [][(last'.op \in {"renameFolder", "renameNote"} /\ last'.input = "blank") =>
        UNCHANGED <<notes, folders, currentNote, noteTitle, noteContent, currentFolderId,
                    noteFiles, foldersFile>>
       ]_vars

\* a rename with a blank value ran while there were a folder and a note to rename
C6_Witness ==
    /\ last.op \in {"renameFolder", "renameNote"}
    /\ last.input = "blank"
    /\ folders # <<>>
    /\ notes # <<>>

\* seq' is seq with the field of the one entry whose id is id replaced, or seq itself
OnlyNameChanged(old, new, id) ==
    /\ Len(new) = Len(old)
    /\ Cardinality({i \in 1..Len(old) : old[i].id = id}) = 1
    /\ \A i \in 1..Len(old) :
          IF old[i].id = id
          THEN new[i] = [old[i] EXCEPT !.name = new[i].name]
          ELSE new[i] = old[i]

OnlyTitleChanged(old, new, id) ==
    /\ Len(new) = Len(old)
    /\ Cardinality({i \in 1..Len(old) : old[i].id = id}) = 1
    /\ \A i \in 1..Len(old) :
          IF old[i].id = id
          THEN new[i] = [old[i] EXCEPT !.title = new[i].title]
          ELSE new[i] = old[i]

\* C7: a successful renameFolder changes only the name of the folder with that
\* id, a successful renameNote only the title of the note with that id; all other
\* fields, entries, and the number and order of entries stay.
C7_RenameFrame ==
    [][/\ (last'.op = "renameFolder" /\ last'.outcome = "ok") =>
            /\ OnlyNameChanged(folders, folders', last'.arg)
            /\ notes' = notes
       /\ (last'.op = "renameNote" /\ last'.outcome = "ok") =>
            /\ OnlyTitleChanged(notes, notes', last'.arg)
            /\ folders' = folders
       ]_vars

\* a rename succeeded on a nested folder, or on a note with content, next to
\* other entries
C7_Witness ==
    /\ last.outcome = "ok"
    /\ \/ /\ last.op = "renameFolder"
          /\ Len(folders) >= 2
          /\ \E i \in 1..Len(folders) :
                folders[i].id = last.arg /\ folders[i].parentId # NULL
       \/ /\ last.op = "renameNote"
          /\ Len(notes) >= 2
          /\ \E i \in 1..Len(notes) :
                notes[i].id = last.arg /\ notes[i].content # <<>>

\* C8: after deleteFolder(id), whatever storage did: the open-note state is
\* cleared if the open note was one of the deleted notes and is unchanged if
\* not; currentFolderId is null if it was in the subtree of id and is unchanged
\* if not.
C8_DeleteFolderResetsUi ==
    [][last'.op = "deleteFolder" =>
        LET doomed == Subtree(folders, last'.arg)
            deleted == {notes[i].id : i \in {j \in 1..Len(notes) : notes[j].folderId \in doomed}}
        IN  /\ IF currentNote # NoNote /\ currentNote.id \in deleted
               THEN currentNote' = NoNote /\ noteTitle' = <<>> /\ noteContent' = <<>>
               ELSE UNCHANGED <<currentNote, noteTitle, noteContent>>
            /\ IF currentFolderId \in doomed
               THEN currentFolderId' = NULL
               ELSE UNCHANGED currentFolderId
            /\ currentNote'.id \notin deleted
            /\ currentFolderId' \notin doomed
       ]_vars

\* a deleteFolder cleared the open note and left the selection at the root
C8_Witness ==
    /\ last.op = "deleteFolder"
    /\ last.cleared
    /\ currentNote = NoNote
    /\ currentFolderId = NULL

\* C9: when the write fails in renameNote, renameFolder or createNewFolder, the
\* notes, the folders and the open-note state in memory are what they were.
C9_FailedWriteKeepsMemory ==
    [][(last'.op \in {"renameNote", "renameFolder", "createNewFolder"}
            /\ last'.outcome = "writeFailed") =>
        UNCHANGED <<notes, folders, currentNote, noteTitle, noteContent>>
       ]_vars

\* a write failed in one of the three handlers, with a note open
C9_Witness ==
    /\ last.op \in {"renameNote", "renameFolder", "createNewFolder"}
    /\ last.outcome = "writeFailed"
    /\ currentNote # NoNote
    /\ folders # <<>>

\* C10: deleteNote(id) removes the note with that id from memory whether or not
\* the file removal succeeds, keeps every other note, and clears the open-note
\* state exactly when the deleted note was the open one.
C10_DeleteNote ==
    [][last'.op = "deleteNote" =>
        /\ notes' = SelectSeq(notes, LAMBDA n : n.id # last'.arg)
        /\ last'.arg \in Ids(notes)
        /\ IF currentNote.id = last'.arg
           THEN currentNote' = NoNote /\ noteTitle' = <<>> /\ noteContent' = <<>>
           ELSE UNCHANGED <<currentNote, noteTitle, noteContent>>
       ]_vars

\* a deleteNote whose file removal failed dropped the open note and kept another
C10_Witness ==
    /\ last.op = "deleteNote"
    /\ last.outcome = "removeFailed"
    /\ last.cleared
    /\ last.removed = 1
    /\ notes # <<>>

\* C29: after deleteFolder(id), whatever the removes and the index write did,
\* no folder of the subtree of id is left in the in-memory folder collection:
\* memory never holds the subtree's folders without its notes.
C29_DeleteFolderDropsSubtree ==
    [][last'.op = "deleteFolder" =>
        Ids(folders') \cap Subtree(folders, last'.arg) = {}
       ]_vars

\* C24: createNewNote changes only the open-note state, and a note it created
\* is neither in storage nor in the notes collection until saveNote runs for
\* it: an id that was in neither enters one of them only in a step of saveNote
\* for that id.
C24_NewNoteUnsavedUntilSave ==
    [][/\ last'.op = "createNewNote" =>
            /\ UNCHANGED <<notes, folders, currentFolderId, noteFiles, foldersFile>>
            /\ currentNote'.id \notin Ids(notes') \cup {f.id : f \in noteFiles'}
       /\ \A id \in (Ids(notes') \cup {f.id : f \in noteFiles'}) \ (Ids(notes) \cup FileIds) :
            /\ last'.op = "saveNote"
            /\ last'.arg = id
            /\ currentNote.id = id
       ]_vars

\* a second note was created and is open, unsaved, next to a saved one
C24_Witness ==
    /\ last.op = "createNewNote"
    /\ notes # <<>>
    /\ noteFiles # {}
    /\ currentNote.id \notin Ids(notes) \cup FileIds

(***************************************************************************)
(* Properties of getDescendantFolderIds.                                   *)
(***************************************************************************)
\* C2: the call returns for every folder array, cyclic ones included, and no
\* id is added to descendants and pushed more than once.
C2_DescendantsTerminate ==
    /\ <>(pc = "done")
    /\ [](\A i, j \in 1..Len(pushLog) : pushLog[i] = pushLog[j] => i = j)

\* a call that returned after walking into a cycle of parentId pointers
C2_Witness ==
    /\ pc = "done"
    /\ Len(pushLog) >= 2
    /\ \E i \in 1..Len(allFolders) :
          /\ allFolders[i].id \in descendants
          /\ ChainReaches(allFolders, allFolders[i].id, allFolders[i].id, Len(allFolders))


\* C25: getDescendantFolderIds(id, folders) returns exactly id and every folder
\* from which id is reached by following parentId pointers one or more times;
\* no sibling, ancestor or folder under another root is in the result.
C25_DescendantsAreSubtree ==
    pc = "done" => descendants = Subtree(allFolders, pushLog[1])

\* a call on a folder in the middle of a chain returned the folder and its
\* child and left out its parent, a root folder
C25_Witness ==
    /\ pc = "done"
    /\ Cardinality(descendants) = 2
    /\ \E i, j \in 1..Len(allFolders) :
          /\ allFolders[i].id = pushLog[1]
          /\ allFolders[i].parentId = allFolders[j].id
          /\ allFolders[j].id \notin descendants
          /\ allFolders[j].parentId = NULL

(***************************************************************************)
(* Properties of the toolbar.  `applied` holds every toolbar call with the *)
(* buffer and offsets its transformer received and the result it returned. *)
(***************************************************************************)
\* the offsets a transformer received lie in the buffer it received
InBuffer(e) == 0 <= e.start /\ e.start <= e.end /\ e.end <= Len(e.value)

\* C12: every toolbar operation, on every buffer (the empty one included) and
\* every selection with 0 <= start <= end <= length(buffer), returns
\* 0 <= selectionStart <= selectionEnd <= length(value)
C12_ResultSelectionInValue ==
    \A i \in 1..Len(applied) :
        InBuffer(applied[i]) =>
            /\ 0 <= applied[i].result.selectionStart
            /\ applied[i].result.selectionStart <= applied[i].result.selectionEnd
            /\ applied[i].result.selectionEnd <= Len(applied[i].result.value)

\* the rule replaced a selection that ends the buffer, and a call ran on the empty buffer
C12_Witness ==
    /\ Len(applied) = 2
    /\ applied[1].value = <<>>
    /\ applied[2].call.kind = "rule"
    /\ applied[2].start < applied[2].end
    /\ applied[2].end = Len(applied[2].value)

SelectedOrPlaceholder(e) ==
    IF e.start # e.end THEN SubSeq(e.value, e.start + 1, e.end) ELSE e.call.placeholder

\* the text of the returned value between the returned offsets
ReturnedSelection(e) ==
    SubSeq(e.result.value, e.result.selectionStart + 1, e.result.selectionEnd)

\* C14, as claimed: for any wrapSelection call, with either value of
\* collapseToEnd, the text between the returned selectionStart and selectionEnd
\* is the originally selected text, or the placeholder for a caret
C14_WrapSelectsInnerAlways ==
    \A i \in 1..Len(applied) :
        applied[i].call.kind = "wrap" =>
            ReturnedSelection(applied[i]) = SelectedOrPlaceholder(applied[i])

\* C14, amended: with collapseToEnd false the text between the returned offsets
\* is the selected text or the placeholder; with collapseToEnd true the returned
\* selection is a caret right after the inserted suffix
C14_WrapSelectsInnerOrCollapses ==
    \A i \in 1..Len(applied) :
        applied[i].call.kind = "wrap" =>
            IF applied[i].call.collapseToEnd
            THEN /\ applied[i].result.selectionStart = applied[i].result.selectionEnd
                 /\ applied[i].result.selectionEnd =
                        applied[i].start + Len(applied[i].call.prefix)
                        + Len(SelectedOrPlaceholder(applied[i])) + Len(applied[i].call.suffix)
            ELSE ReturnedSelection(applied[i]) = SelectedOrPlaceholder(applied[i])

\* a button wrapped selected text, then a collapseToEnd call wrapped a caret
C14_Witness ==
    /\ Len(applied) = 2
    /\ applied[1].call = ItalicCall
    /\ applied[1].start < applied[1].end
    /\ applied[2].call.kind = "wrap"
    /\ applied[2].call.collapseToEnd
    /\ applied[2].start = applied[2].end

\* C15: wrapSelection returns buffer[0..start) + prefix + selected + suffix +
\* buffer[end..), selected being the selected text or the placeholder; on
\* "hello world" with selection {6,11} the bold wrap returns "hello **world**"
\* with selection {8,13}
C15_WrapInsertsAroundSelection ==
    \A i \in 1..Len(applied) :
        applied[i].call.kind = "wrap" =>
            /\ applied[i].result.value =
                   SubSeq(applied[i].value, 1, applied[i].start)
                   \o applied[i].call.prefix \o SelectedOrPlaceholder(applied[i])
                   \o applied[i].call.suffix
                   \o SubSeq(applied[i].value, applied[i].end + 1, Len(applied[i].value))
            /\ (/\ applied[i].call = BoldCall
                /\ applied[i].value = HelloWorld
                /\ applied[i].start = 6
                /\ applied[i].end = 11)
               => applied[i].result =
                      TransformationResult(<<"h", "e", "l", "l", "o", " ", "*", "*", "w", "o", "r", "l", "d", "*", "*">>, 8, 13)

\* the bold button was pressed on "hello world" with "world" selected
C15_Witness ==
    /\ Len(applied) = 1
    /\ applied[1].call = BoldCall
    /\ applied[1].value = HelloWorld
    /\ applied[1].start = 6
    /\ applied[1].end = 11

\* the operations built on prefixLines
LineKinds == {"heading", "blockquote", "bullet", "ordered", "checklist"}

\* the marker a line operation puts in front of line k of a block (k from 1)
Marker(call, k) ==
    IF call.kind = "ordered" THEN ToStr(k) \o <<".", " ">> ELSE call.prefix

\* value with text inserted at offset
InsertAt(value, offset, text) ==
    SubSeq(value, 1, offset) \o text \o SubSeq(value, offset + 1, Len(value))

\* calls i and i + 1 are the same operation, the second on the buffer the first returned
SameCallTwice(i) ==
    /\ i + 1 <= Len(applied)
    /\ applied[i].call.kind \in LineKinds
    /\ applied[i + 1].call = applied[i].call
    /\ applied[i + 1].value = applied[i].result.value

\* no line of value starts with the marker of call
Unmarked(value, call) ==
    \A k \in 1..Len(SplitLines(value)) : ~StartsWith(SplitLines(value)[k], Marker(call, 1))

\* C16: the same prefixLines operation applied twice to a caret (start = end at
\* each application) makes two independent prefix + placeholder insertions, and
\* no line of the buffer ends up with the marker doubled; stated for buffers
\* that held no such marker before
C16_CaretTwiceNeverDoublesMarker ==
    \A i \in 1..Len(applied) :
        (/\ SameCallTwice(i)
         /\ Unmarked(applied[i].value, applied[i].call)
         /\ applied[i].start = applied[i].end
         /\ applied[i + 1].start = applied[i + 1].end)
        => LET call == applied[i].call
               insertion == call.prefix \o call.placeholder
               lines == SplitLines(applied[i + 1].result.value)
           IN  /\ applied[i + 1].result.value =
                      InsertAt(InsertAt(applied[i].value, applied[i].start, insertion),
                               applied[i + 1].start, insertion)
               /\ \A k \in 1..Len(lines) :
                      ~StartsWith(lines[k], Marker(call, 1) \o Marker(call, 1))

\* call i + 1 is call i again, made on the block selection call i returned
BlockTwice(i) ==
    /\ SameCallTwice(i)
    /\ applied[i].start # applied[i].end
    /\ applied[i + 1].start = applied[i].result.selectionStart
    /\ applied[i + 1].end = applied[i].result.selectionEnd

\* C17, as claimed: a line-prefix operation applied a second time to the block
\* selection its first application returned leaves buffer and selection unchanged
C17_SecondApplicationChangesNothing ==
    \A i \in 1..Len(applied) :
        BlockTwice(i) => applied[i + 1].result = applied[i].result

\* the text after the marker of a marked line is empty or starts with a
\* character that is neither whitespace nor a marker character
PlainAfterMarker(line, call) ==
    LET text == Drop(line, Len(call.prefix))
    IN  text = <<>> \/ text[1] \notin Spaces \cup {"#", ">", "-", "*"}

\* C17, amended: the second application keeps the number of lines of the block
\* and every line still begins with the marker; buffer and selection are
\* unchanged for the ordered list, and for the other operations when the text
\* after the marker of every line is empty or starts with a character other
\* than whitespace, "#", ">", "-" and "*"
C17_SecondApplicationKeepsMarkers ==
    \A i \in 1..Len(applied) :
        BlockTwice(i) =>
            LET call == applied[i].call
                first == SplitLines(ReturnedSelection(applied[i]))
                second == SplitLines(ReturnedSelection(applied[i + 1]))
            IN  /\ Len(second) = Len(first)
                /\ \A k \in 1..Len(second) : StartsWith(second[k], Marker(call, k))
                /\ (\/ call.kind = "ordered"
                    \/ \A k \in 1..Len(first) : PlainAfterMarker(first[k], call))
                   => applied[i + 1].result = applied[i].result

\* the bullet list button was pressed twice on a one-line block of plain text,
\* the second time on the selection the first press returned
C17_Witness ==
    /\ Len(applied) = 2
    /\ BlockTwice(1)
    /\ applied[1].call.kind = "bullet"
    /\ applied[1].value = <<"a">>
    /\ applied[2].result = applied[1].result

\* the marker the claim gives Heading(level): level clamped into 1..6 "#", one space
ClaimedHeadingMarker(level) ==
    LET hashes == IF level < 1 THEN 1 ELSE IF level > 6 THEN 6 ELSE level
    IN  [k \in 1..(hashes + 1) |-> IF k <= hashes THEN "#" ELSE " "]

\* the decimal text of a level
LevelText(level) ==
    CASE level = -1 -> <<"-", "1">>
      [] level >= 0 -> ToStr(level)

\* C18: insertHeading(level) uses exactly min(max(level, 1), 6) "#" and one
\* space as its marker, for every level: at a caret it inserts that marker and
\* "Heading <level>", on a block every line starts with that marker; Heading(0)
\* gives 1 "#", Heading(9) gives 6
C18_HeadingLevelClamped ==
    \A i \in 1..Len(applied) :
        applied[i].call.kind = "heading" =>
            LET marker == ClaimedHeadingMarker(applied[i].call.level)
                lines == SplitLines(ReturnedSelection(applied[i]))
            IN  /\ applied[i].call.level = 0 => marker = <<"#", " ">>
                /\ applied[i].call.level = 9 => marker = <<"#", "#", "#", "#", "#", "#", " ">>
                /\ IF applied[i].start = applied[i].end
                   THEN applied[i].result.value =
                            InsertAt(applied[i].value, applied[i].start,
                                     marker \o <<"H", "e", "a", "d", "i", "n", "g", " ">>
                                     \o LevelText(applied[i].call.level))
                   ELSE \A k \in 1..Len(lines) : StartsWith(lines[k], marker)

\* Heading(0) was applied to a caret and then Heading(9) to a selected block
C18_Witness ==
    /\ Len(applied) = 2
    /\ applied[1].call.kind = "heading"
    /\ applied[1].call.level = 0
    /\ applied[1].start = applied[1].end
    /\ applied[2].call.kind = "heading"
    /\ applied[2].call.level = 9
    /\ applied[2].start < applied[2].end

\* the number of lines of value the offsets start..end reach into
LinesSelected(value, start, end) ==
    1 + Cardinality({k \in (start + 1)..end : value[k] = NewLine})

\* C19: the ordered-list operation on a selected block of n lines yields n
\* lines, line i of the block beginning with "i. ", whatever the lines held
C19_OrderedListNumbersBlock ==
    \A i \in 1..Len(applied) :
        (applied[i].call.kind = "ordered" /\ applied[i].start # applied[i].end) =>
            LET lines == SplitLines(ReturnedSelection(applied[i]))
            IN  /\ Len(lines) = LinesSelected(applied[i].value, applied[i].start,
                                              applied[i].end)
                /\ \A k \in 1..Len(lines) : StartsWith(lines[k], ToStr(k) \o <<".", " ">>)

\* C20: with a caret a prefixLines operation inserts prefix + placeholder at the
\* caret, leaves the rest of the buffer as it was and returns a selection that
\* covers the placeholder and none of the marker; the checklist on the empty
\* buffer returns "- [ ] To-do item" with selection {6,16}
C20_CaretInsertsPlaceholder ==
    \A i \in 1..Len(applied) :
        (applied[i].call.kind \in LineKinds /\ applied[i].start = applied[i].end) =>
            /\ applied[i].result.value =
                   InsertAt(applied[i].value, applied[i].start,
                            applied[i].call.prefix \o applied[i].call.placeholder)
            /\ applied[i].result.selectionStart =
                   applied[i].start + Len(applied[i].call.prefix)
            /\ ReturnedSelection(applied[i]) = applied[i].call.placeholder
            /\ (applied[i].call.kind = "checklist" /\ applied[i].value = <<>>)
               => applied[i].result =
                      TransformationResult(<<"-", " ", "[", " ", "]", " ", "T", "o", "-", "d", "o", " ", "i", "t", "e", "m">>, 6, 16)

\* the checklist button was pressed on the empty buffer
C20_Witness ==
    /\ Len(applied) = 1
    /\ applied[1].call.kind = "checklist"
    /\ applied[1].value = <<>>
    /\ noteContent = <<"-", " ", "[", " ", "]", " ", "T", "o", "-", "d", "o", " ", "i", "t", "e", "m">>

\* what the claim says of one block call: the block [lineStart, lineEnd) of
\* the buffer, read off the result, holds the selection, starts and ends at
\* line boundaries, and only it was rewritten, line for line
BlockRewritten(e) ==
    LET lineStart == e.result.selectionStart
        lineEnd == Len(e.value) - (Len(e.result.value) - e.result.selectionEnd)
    IN  /\ 0 <= lineStart
        /\ lineStart <= e.start
        /\ e.end <= lineEnd
        /\ lineEnd <= Len(e.value)
        /\ lineStart = 0 \/ e.value[lineStart] = NewLine
        /\ lineEnd = Len(e.value) \/ e.value[lineEnd + 1] = NewLine
        /\ SubSeq(e.result.value, 1, lineStart) = SubSeq(e.value, 1, lineStart)
        /\ SubSeq(e.result.value, e.result.selectionEnd + 1, Len(e.result.value))
               = SubSeq(e.value, lineEnd + 1, Len(e.value))
        /\ Len(SplitLines(ReturnedSelection(e)))
               = Len(SplitLines(SubSeq(e.value, lineStart + 1, lineEnd)))

\* C26: for a non-empty selection prefixLines rewrites a block [lineStart,
\* lineEnd) with lineStart <= start and end <= lineEnd that starts at 0 or
\* right after a newline and ends at the end of the buffer or at a newline,
\* also when start is 0 and the buffer begins with a newline; the text outside
\* the block and the number of its lines are unchanged and the returned
\* selection is the rewritten block
C26_BlockCoversSelection ==
    \A i \in 1..Len(applied) :
        (applied[i].call.kind \in LineKinds /\ applied[i].start # applied[i].end) =>
            BlockRewritten(applied[i])

\* C28: Link and Image, on any buffer and selection, return a selection whose
\* text is the URL placeholder "https://"; the brackets hold the selected text,
\* or "Link text" / "Alt text" for a caret, and the rest of the buffer stays
C28_LinkSelectsUrl ==
    \A i \in 1..Len(applied) :
        applied[i].call.kind \in {"link", "image"} =>
            LET e == applied[i]
                label == IF e.start # e.end THEN SubSeq(e.value, e.start + 1, e.end)
                         ELSE IF e.call.kind = "link"
                              THEN <<"L", "i", "n", "k", " ", "t", "e", "x", "t">>
                              ELSE <<"A", "l", "t", " ", "t", "e", "x", "t">>
                open == IF e.call.kind = "link" THEN <<"[">> ELSE <<"!", "[">>
            IN  /\ ReturnedSelection(e) = <<"h", "t", "t", "p", "s", ":", "/", "/">>
                /\ e.result.value =
                       SubSeq(e.value, 1, e.start) \o open \o label
                       \o <<"]", "(", "h", "t", "t", "p", "s", ":", "/", "/", ")">>
                       \o SubSeq(e.value, e.end + 1, Len(e.value))

\* Link was pressed on selected text and then Image at a caret
C28_Witness ==
    /\ Len(applied) = 2
    /\ applied[1].call.kind = "link"
    /\ applied[1].start < applied[1].end
    /\ applied[2].call.kind = "image"
    /\ applied[2].start = applied[2].end

\* the line carries a heading marker of a level in 1..6: the "#" and whitespace
Headed(line) ==
    LET hashes == Run(line, {"#"})
    IN  hashes \in 1..6 /\ Len(line) > hashes /\ line[hashes + 1] \in Spaces

\* the text of a headed line: what follows the marker and its whitespace
HeadedText(line) == DropSpaces(Drop(line, Run(line, {"#"})))

\* the lines of the block a block call rewrote, as they were
BlockLines(e) ==
    SplitLines(SubSeq(e.value, e.result.selectionStart + 1,
                      Len(e.value) - (Len(e.result.value) - e.result.selectionEnd)))

\* C27, as claimed: Heading(k) on a selected block turns every line that
\* carries a heading marker of a level in 1..6 into k "#", one space and the
\* original text of the line
C27_HeadingAlwaysReplacesMarker ==
    \A i \in 1..Len(applied) :
        (/\ applied[i].call.kind = "heading"
         /\ applied[i].call.level \in 1..6
         /\ applied[i].start # applied[i].end) =>
            LET before == BlockLines(applied[i])
                after == SplitLines(ReturnedSelection(applied[i]))
            IN  \A n \in 1..Len(before) :
                    Headed(before[n]) =>
                        after[n] = Repeat("#", applied[i].call.level) \o <<" ">>
                                   \o HeadedText(before[n])

\* C27, amended: the line becomes k "#", one space and the original text
\* unless the original text itself begins with k "#" and a space; in that
\* case the line is left as the original text, with no marker added
C27_HeadingReplacesMarkerUnlessTextHasIt ==
    \A i \in 1..Len(applied) :
        (/\ applied[i].call.kind = "heading"
         /\ applied[i].call.level \in 1..6
         /\ applied[i].start # applied[i].end) =>
            LET before == BlockLines(applied[i])
                after == SplitLines(ReturnedSelection(applied[i]))
                marker == Repeat("#", applied[i].call.level) \o <<" ">>
            IN  /\ Len(after) = Len(before)
                /\ \A n \in 1..Len(before) :
                      Headed(before[n]) =>
                          after[n] = IF StartsWith(HeadedText(before[n]), marker)
                                     THEN HeadedText(before[n])
                                     ELSE marker \o HeadedText(before[n])

\* Heading 2 was applied to a block of two lines headed at levels 3 and 1
C27_Witness ==
    /\ Len(applied) = 1
    /\ applied[1].call.kind = "heading"
    /\ applied[1].call.level = 2
    /\ applied[1].value = <<"#", "#", "#", " ", "a", NewLine, "#", " ", "a">>
    /\ applied[1].end = Len(applied[1].value)
    /\ noteContent = <<"#", "#", " ", "a", NewLine, "#", "#", " ", "a">>

(***************************************************************************)
(* Properties of the handlers with their awaits.                           *)
(***************************************************************************)
\* C11: whatever the order in which user actions arrive, at most one write to
\* the folder index is in flight at a time, and at most one write to the same
\* note file
C11_OneWritePerFile ==
    \A a, b \in inflight :
        (a.call = "write" /\ b.call = "write" /\ a.path = b.path) => a = b


(***************************************************************************)
(* Properties of the frame callback.                                       *)
(***************************************************************************)
\* the callback of call i is still waiting for its animation frame
FramePending(i) == \E k \in 1..Len(frames) : frames[k].id = i

\* what a callback that restored the selection of call i left in the textarea:
\* offsets inside the value the call produced, and the returned offsets
\* themselves when no later call has replaced the content
RestoredInValue(i, callback) ==
    /\ callback.after >= i
    /\ 0 <= callback.start
    /\ callback.start <= callback.end
    /\ callback.end <= Len(applied[i].result.value)
    /\ callback.after = i =>
          /\ callback.start = applied[i].result.selectionStart
          /\ callback.end = applied[i].result.selectionEnd

\* C21, as claimed: for every toolbar action made in edit mode the content is
\* handed to the host before the selection is restored, the selection is
\* restored exactly once, and the restored offsets lie in [0, length(value)] of
\* the value the action produced
C21_RestoredExactlyOnce ==
    \A i \in 1..Len(applied) :
        /\ Len(applied[i].callbacks) <= 1
        /\ ~FramePending(i) =>
              /\ Len(applied[i].callbacks) = 1
              /\ applied[i].callbacks[1].restored
              /\ RestoredInValue(i, applied[i].callbacks[1])

\* C21, amended: the callback of every toolbar action runs exactly once, after
\* the content was handed to the host; it restores the selection when the
\* textarea is mounted at that time (a note open in edit mode) and does nothing
\* when it is not; restored offsets lie in [0, length(value)] of the value the
\* action produced
C21_CallbackOnceRestoresIfMounted ==
    \A i \in 1..Len(applied) :
        /\ Len(applied[i].callbacks) + (IF FramePending(i) THEN 1 ELSE 0) = 1
        /\ \A k \in 1..Len(applied[i].callbacks) :
              /\ applied[i].callbacks[k].after >= i
              /\ applied[i].callbacks[k].restored =>
                    RestoredInValue(i, applied[i].callbacks[k])

\* two toolbar calls were made before a frame ran; the callback of the first
\* restored its selection, the callback of the second found no textarea
C21_Witness ==
    /\ Len(applied) = 2
    /\ frames = <<>>
    /\ Len(applied[1].callbacks) = 1
    /\ applied[1].callbacks[1].restored
    /\ applied[1].callbacks[1].after = 2
    /\ Len(applied[2].callbacks) = 1
    /\ ~applied[2].callbacks[1].restored


(***************************************************************************)
(* Properties of loadData.                                                 *)
(***************************************************************************)
\* the entries of the directory the last loadData could read and parse
Readable == {f \in noteFiles : f.id \notin last.arg.unreadable}

\* C22: loadNotes skips every entry whose read or parse fails and loads every
\* other entry of the directory: the loaded collection holds exactly the
\* readable entries, each once
C22_LoadSkipsUnreadable ==
    (last.op = "loadData" /\ last.arg.listOk) =>
        /\ Range(notes) = Readable
        /\ Len(notes) = Cardinality(Readable)

\* a load met an unreadable entry and still loaded two notes
C22_Witness ==
    /\ last.op = "loadData"
    /\ last.arg.listOk
    /\ last.arg.unreadable # {}
    /\ Len(notes) >= 2

\* C23: when the read of the folder index fails, loadFolders sets the folder
\* collection to empty, the notes are loaded as they would be otherwise, and
\* loadData returns without throwing
C23_MissingIndexLoadsEmpty ==
    (last.op = "loadData" /\ ~last.arg.readOk) =>
        /\ folders = <<>>
        /\ last.arg.listOk => Range(notes) = Readable
        /\ last.outcome = "ok"

\* the read of an index that holds a folder failed while notes were loaded
C23_Witness ==
    /\ last.op = "loadData"
    /\ ~last.arg.readOk
    /\ last.arg.listOk
    /\ foldersFile # <<>>
    /\ notes # <<>>


\* the storage calls that settle in a step
Settling == inflight \ inflight'

\* C30: no update is lost under interleaving: a folder that is in the
\* collection after a successful createNewFolder or renameFolder stays in
\* memory and in the index until a deleteFolder takes it out, and a saved note
\* stays in the notes collection until it is deleted, also when a handler that
\* started from an older snapshot completes afterwards
C30_NoLostUpdate ==
    [][/\ \A id \in Ids(folders) :
            \/ id \in Ids(folders') \cap Ids(foldersFile')
            \/ \E w \in Settling : w.op = "deleteFolder"
       /\ \A id \in Ids(notes) :
            \/ id \in Ids(notes')
            \/ \E w \in Settling : w.op \in {"deleteNote", "deleteFolder"}
       ]_vars

====
